---------------------------- MODULE Spec2Model ----------------------------
(***************************************************************************)
(* Backtest simulator, grid-search optimizer and best-parameter cache of   *)
(* backtest_individual.py.                                                 *)
(*                                                                         *)
(* Numbers.  Money is counted in whole dollars.  A quantity is counted in  *)
(* quanta: one share on a non-crypto market, 10^-8 of a coin on a CRYPTO   *)
(* market (the step of round(x, 8)), and a price is the price of one       *)
(* quantum.  Python's float arithmetic is modelled by exact arithmetic on  *)
(* these integers: x / y followed by int() is the floor quotient, followed *)
(* by round(., 8) it is the quotient rounded to the nearest quantum, ties  *)
(* to even.                                                                *)
(***************************************************************************)
EXTENDS Integers, Sequences, FiniteSets, TLC

(***************************************************************************)
(* Bounds of the model.                                                    *)
(***************************************************************************)
\* Largest number of bars the data fetch returns.
MaxBars == 4

\* Largest number of run_backtest calls made one after another.
MaxCalls == 2

\* Clock readings per day: datetime.now() is finer than the stored date.
TicksPerDay == 2

(***************************************************************************)
(* Inputs of run_backtest.                                                 *)
(***************************************************************************)
Markets == {"STOCK", "CRYPTO"}

\* Close prices a bar can take, per quantum of the market.
Prices(market) ==
    IF market = "CRYPTO" THEN {1, 3, 6} ELSE {100, 450, 30000}

\* The values of signals['signal'].
Signals == {-1, 0, 1}

\* The cache document run_backtest reads.
DefaultCachePath == "best_params.json"
Paths == {DefaultCachePath, "other_params.json"}
Symbols == {"SPY", "BTC/USD"}

None == [some |-> FALSE]
Some(v) == [some |-> TRUE, val |-> v]

\* get_default_params() of the indicators module.
DefaultParams ==
    [reactivity |-> 10, fractal_window |-> 100,
     macd_weight |-> 40, rsi_weight |-> 30]

\* A parameter set a caller passes explicitly.
ExplicitParams ==
    [reactivity |-> 12, fractal_window |-> 50,
     macd_weight |-> 10, rsi_weight |-> 40]

(***************************************************************************)
(* The cache document: a file is missing, unparseable, or a JSON object    *)
(* mapping symbols to entries.                                             *)
(***************************************************************************)
MissingFile == [kind |-> "missing"]
CorruptFile == [kind |-> "corrupt"]
JsonFile(doc) == [kind |-> "json", data |-> doc]
EmptyDoc == [s \in {} |-> None]

\* A load that ignores what the file holds.
LoadedDocAlwaysEmpty(f) == EmptyDoc

\* json.load(f), or {} when the file is not found; f is not corrupt
LoadedDoc(f) == IF f.kind = "missing" THEN EmptyDoc ELSE f.data

\* A store that drops every entry but the one written.
DocPutOnlySymbol(doc, symbol, entry) == [s \in {symbol} |-> entry]

\* existing_data[symbol] = entry
DocPut(doc, symbol, entry) ==
    [s \in (DOMAIN doc) \cup {symbol} |-> IF s = symbol THEN entry ELSE doc[s]]

VARIABLES
    files,                 \* path -> file content
    clock,                 \* datetime.now(), in ticks
    fb,                    \* per process: the frame of its find_best_params call
    writes,                \* the processes that wrote a cache file, in order
    run_pc,                \* where run_backtest is
    symbol,                \* run_backtest's symbol argument
    market,                \* symbol_config['market']
    is_simulating,         \* run_backtest's is_simulating argument
    params,                \* run_backtest's params (argument, then as resolved)
    nbars,                 \* len(data) after the market-hours filter
    i,                     \* number of bars processed
    close,                 \* data['close'], the bars processed so far
    signals,               \* signals['signal'], the bars processed so far,
                           \* where the run is recorded; else None
    calls,                 \* number of run_backtest calls made
    current_price,
    signal,
    total_position_value,
    position,
    cash,
    portfolio_value,
    shares,
    trades,
    error,                 \* the exception run_backtest raised, or "none"
    stats                  \* result['stats'], or None

simVars ==
    <<run_pc, symbol, market, is_simulating, params, nbars, i, close,
      signals, calls, current_price, signal, total_position_value, position, cash, portfolio_value, shares,
      trades, error, stats>>

cacheVars == <<clock, fb, writes>>

VARIABLES
    last_portfolio_backtest,  \* self._last_portfolio_backtest, or None
    held,                  \* the symbols whose executor holds a position
    cmd,                   \* the handler of the bot that runs or ran last
    invoked,               \* the calls that handler has made, in order
    message,               \* send_message's argument
    chunks,                \* send_message's chunks
    sent,                  \* the chunks delivered by this call, in order
    send_pc,               \* where send_message is
    send_logged            \* whether this call logged an error

sendVars == <<message, chunks, sent, send_pc, send_logged>>

botVars == <<last_portfolio_backtest, held, cmd, invoked>>

vars == <<files, cacheVars, simVars, botVars, sendVars>>

(***************************************************************************)
(* Arithmetic of the replay loop.                                          *)
(***************************************************************************)
initial_capital == 100000

\* capital_to_use = initial_capital * 0.20
capital_to_use == (initial_capital * 20) \div 100

\* A conversion to whole shares that rounds up.
IntDivRoundUp(a, b) == (a + b - 1) \div b

\* int(a / b) for a >= 0, b > 0
IntDiv(a, b) == a \div b

\* round(a / b, 8) in quanta of 10^-8: nearest, ties to even
RoundHalfEven(a, b) ==
    LET q == a \div b
        r == a % b
    IN  IF 2 * r < b THEN q
        ELSE IF 2 * r > b THEN q + 1
        ELSE IF q % 2 = 0 THEN q ELSE q + 1

\* "Round based on market type"
Quantize(mkt, a, b) ==
    IF mkt = "CRYPTO" THEN RoundHalfEven(a, b) ELSE IntDiv(a, b)

\* min_qty: 1 share, or 0.0001 coin = 10^4 quanta of 10^-8
min_qty(mkt) == IF mkt # "CRYPTO" THEN 1 ELSE 10000

\* shares_to_buy before the cap check: the tranche, quantized, raised to min_qty
TrancheShares(mkt, price) ==
    LET q == Quantize(mkt, capital_to_use, price)
    IN  IF q < min_qty(mkt) THEN min_qty(mkt) ELSE q

\* A cap check that rejects the buy instead of shrinking it.
SharesToBuyRejectAtCap(mkt, tpv, price) ==
    LET s == TrancheShares(mkt, price)
    IN  IF tpv + s * price > initial_capital THEN 0 ELSE s

\* shares_to_buy after "Check if adding this position would exceed max
\* position value"
SharesToBuy(mkt, tpv, price) ==
    LET s == TrancheShares(mkt, price)
        max_position_value == initial_capital
    IN  IF tpv + s * price > max_position_value
        THEN Quantize(mkt, max_position_value - tpv, price)
        ELSE s

\* A cost with a fee of one dollar on top of the price.
CostWithFee(shares_to_buy, price) == shares_to_buy * price + 1

\* cost = shares_to_buy * current_price
Cost(shares_to_buy, price) == shares_to_buy * price

\* A buy guard that forgets the cash check.
BuyExecutesNoCashCheck(shares_to_buy, price, csh) ==
    shares_to_buy > 0

\* if cost <= cash and shares_to_buy > 0
BuyExecutes(shares_to_buy, price, csh) ==
    shares_to_buy * price <= csh /\ shares_to_buy > 0

\* A buy that subtracts the quantity instead of adding it.
PositionAfterBuySignSlip(pos, shares_to_buy) == pos - shares_to_buy

\* position += shares_to_buy
PositionAfterBuy(pos, shares_to_buy) == pos + shares_to_buy

\* A timestamp that is the first bar's for every bar.
current_time_of_first_bar(idx) == 0

\* current_time = data.index[i]: timestamps increase strictly with the bar
\* index, and a bar's timestamp is modelled by its index
current_time(idx) == idx

\* A position value that is never brought up to date.
PositionValueIgnored(pos, price) == 0

\* total_position_value = position * current_price, before any trade of the bar
PositionValue(pos, price) == pos * price

\* A loop that processes the signal of the first bar too.
SignalProcessedAlways(idx) == TRUE

\* if i > 0: "Skip first bar for signal processing"
SignalProcessed(idx) == idx > 0

\* A sell branch taken on every sell signal, with or without a position.
SellExecutesAnyPosition(sig, pos) == sig = -1

\* elif signal == -1 and position > 0
SellExecutes(sig, pos) == sig = -1 /\ pos > 0

\* A sale that credits one tranche whatever is held.
SaleValueOfTranche(pos, price) == capital_to_use

\* sale_value = position * current_price
SaleValue(pos, price) == pos * price

\* A portfolio value that leaves the position out.
current_value_cash_only(csh, pos, price) == csh

\* current_value = cash + (position * current_price)
current_value(csh, pos, price) == csh + pos * price

\* A final value taken at the first close instead of the last.
FinalValueAtFirstClose(csh, pos, closes) == csh + pos * closes[1]

\* final_value = cash + (position * data['close'].iloc[-1])
FinalValue(csh, pos, closes) == csh + pos * closes[Len(closes)]

\* total_return = ((final_value - initial_capital) / initial_capital) * 100,
\* as the fraction num / den
TotalReturn(final_value) ==
    [num |-> final_value - initial_capital, den |-> initial_capital \div 100]

(***************************************************************************)
(* Performance metrics (lines 291-323).  A percentage that is a quotient   *)
(* is kept as the exact fraction num / den.                                *)
(***************************************************************************)
\* a / b <= c / d for a, c >= 0 and b, d > 0, by the quotients and remainders
\* (the products a * d and c * b are never formed)
RECURSIVE FracLeq(_, _, _, _)
FracLeq(a, b, c, d) ==
    LET qa == a \div b
        qc == c \div d
        ra == a % b
        rc == c % d
    IN  IF qa # qc THEN qa < qc
        ELSE IF ra = 0 THEN TRUE
        ELSE IF rc = 0 THEN FALSE
        ELSE FracLeq(d, rc, b, ra)

RECURSIVE GCD(_, _)
GCD(a, b) == IF b = 0 THEN a ELSE GCD(b, a % b)

\* The trades of one type, in recording order: trades_df[trades_df['type'] == type]
TradesOfType(trs, type) == SelectSeq(trs, LAMBDA t : t.type = type)

\* win_rate = 0
ZeroRate == [num |-> 0, den |-> 1]

\* A win rate that counts a zero-profit pair as a win.
WinRateNonStrict(trs) ==
    LET buy_trades == TradesOfType(trs, "buy")
        sell_trades == TradesOfType(trs, "sell")
        min_trades == IF Len(buy_trades) < Len(sell_trades)
                      THEN Len(buy_trades) ELSE Len(sell_trades)
    IN  IF min_trades = 0 THEN ZeroRate
        ELSE [num |-> 100 * Cardinality({k \in 1..min_trades :
                          sell_trades[k].value - buy_trades[k].value >= 0}),
              den |-> min_trades]

\* A win rate that pairs every sell with the buy recorded just before it.
WinRateLastBuyBeforeSell(trs) ==
    LET sold == {n \in 2..Len(trs) : trs[n].type = "sell"}
    IN  IF sold = {} THEN ZeroRate
        ELSE [num |-> 100 * Cardinality({n \in sold :
                          trs[n].value - trs[n - 1].value > 0}),
              den |-> Cardinality(sold)]

\* win_rate (lines 292-308, 321): the percentage num / den of the positional
\* buy/sell pairs whose profit is > 0
WinRate(trs) ==
    LET buy_trades == TradesOfType(trs, "buy")
        sell_trades == TradesOfType(trs, "sell")
        min_trades == IF Len(buy_trades) < Len(sell_trades)
                      THEN Len(buy_trades) ELSE Len(sell_trades)
        profits == [k \in 1..min_trades |->
                        sell_trades[k].value - buy_trades[k].value]
    IN  IF trs = <<>> THEN ZeroRate
        ELSE IF Len(buy_trades) > 0 /\ Len(sell_trades) > 0
        THEN [num |-> 100 * Cardinality({k \in 1..min_trades : profits[k] > 0}),
              den |-> Len(profits)]
        ELSE ZeroRate

\* The fraction num / den in lowest terms, as a percentage scale * num / den.
Percentage(num, den) ==
    LET g == GCD(num, den)
    IN  [num |-> num \div g, den |-> den \div g, scale |-> 100]

\* A drawdown measured from the first value instead of the running maximum.
MaxDrawdownFromStart(trs, series) ==
    LET drop(k) == IF series[k] < series[1] THEN series[1] - series[k] ELSE 0
        worst == CHOOSE k \in 1..Len(series) :
                    \A j \in 1..Len(series) : drop(j) <= drop(k)
    IN  Percentage(drop(worst), series[1])

\* One pass over the value series from its point k on: rolling_max is the
\* expanding maximum before k, and num / den the largest drop below the
\* expanding maximum found before k.
RECURSIVE DrawdownScan(_, _, _, _, _)
DrawdownScan(series, k, rolling_max, num, den) ==
    IF k > Len(series) THEN Percentage(num, den)
    ELSE LET new_max == IF series[k] > rolling_max THEN series[k] ELSE rolling_max
             drop == new_max - series[k]
         IN  IF FracLeq(drop, new_max, num, den)
             THEN DrawdownScan(series, k + 1, new_max, num, den)
             ELSE DrawdownScan(series, k + 1, new_max, drop, new_max)

\* max_drawdown (lines 310-314, 322): abs(min((value - rolling_max) /
\* rolling_max * 100)) over the value series; 0 without looking at the series
\* when there is no trade
MaxDrawdown(trs, series) ==
    IF trs = <<>> THEN Percentage(0, 1)
    ELSE DrawdownScan(series, 1, series[1], 0, 1)

\* sharpe_ratio (lines 316-323), by the kind of float it is.  returns has one
\* element less than the value series; its first element is 0, because bar 0
\* never trades, so the standard deviation of the excess returns is 0.0 when
\* and only when the value series is constant, and then the mean excess
\* return -0.02/252 is divided by 0.0.  An irrational value is not computed.
SharpeRatio(trs, series) ==
    IF trs = <<>> THEN "0"
    ELSE IF Len(series) - 1 = 0 THEN "0"
    ELSE IF Len(series) - 1 = 1 THEN "nan"
    ELSE IF \A k \in 1..Len(series) : series[k] = series[1] THEN "-inf"
    ELSE "finite"

(***************************************************************************)
(* run_backtest.                                                           *)
(***************************************************************************)
\* A parameter source that reads the cache whatever is_simulating says.
ResolveParamsCacheAlways(sim, prm, best_params_data, sym) ==
    IF sym \in DOMAIN best_params_data
    THEN Some(best_params_data[sym].best_params)
    ELSE Some(DefaultParams)

\* Lines 158-165: the params that go to generate_signals and to params_used
ResolveParams(sim, prm, best_params_data, sym) ==
    IF sim = FALSE
    THEN IF sym \in DOMAIN best_params_data
         THEN Some(best_params_data[sym].best_params)
         ELSE Some(DefaultParams)
    ELSE prm

\* The values a call can be made with.
ParamsArgs == {None, Some(ExplicitParams)}

\* A portfolio that a call takes over from the call before it.
KeptPortfolio(prev) == prev

\* A portfolio whose two series start empty.
FreshPortfolioUnseeded(prev) ==
    [position |-> 0,
     cash |-> initial_capital,
     portfolio_value |-> <<>>,
     shares |-> <<>>,
     trades |-> <<>>,
     total_position_value |-> 0]

\* Lines 204-211: "Initialize portfolio tracking".  prev is what the
\* variables held before the call.
FreshPortfolio(prev) ==
    [position |-> 0,
     cash |-> initial_capital,
     portfolio_value |-> <<initial_capital>>,
     shares |-> <<0>>,
     trades |-> <<>>,
     total_position_value |-> 0]

\* Lines 147-211: a call of run_backtest up to the loop: load the cache
\* document, resolve the parameters, fetch and filter the bars, generate the
\* signals, initialise the portfolio.  A call that raises before line 204
\* has no portfolio; the variables then hold the initial values too.
RunBacktestCall(sym, mkt, sim, prm) ==
    /\ symbol' = sym
    /\ market' = mkt
    /\ is_simulating' = sim
    /\ stats' = None
    /\ LET f == files[DefaultCachePath]
       IN  IF f.kind = "corrupt"
           THEN \* json.load raises; only FileNotFoundError is caught
                /\ run_pc' = "raised"
                /\ error' = "JSONDecodeError"
                /\ params' = prm
                /\ nbars' = 0
           ELSE LET best_params_data == LoadedDoc(f)
                IN  \* fetched bars, and those of them within market hours
                    \E fetched \in 0..MaxBars :
                    \E kept \in 0..fetched :
                       /\ params' = ResolveParams(sim, prm, best_params_data, sym)
                       /\ IF fetched = 0
                          THEN \* if len(data) == 0: raise ValueError
                               /\ run_pc' = "raised"
                               /\ error' = "ValueError"
                               /\ nbars' = 0
                          ELSE \* generate_signals is taken to return for
                               \* every frame, the empty one included
                               /\ run_pc' = "loop"
                               /\ error' = "none"
                               /\ nbars' = kept
    /\ LET fresh == FreshPortfolio(
                        [position |-> position,
                         cash |-> cash,
                         portfolio_value |-> portfolio_value,
                         shares |-> shares,
                         trades |-> trades,
                         total_position_value |-> total_position_value])
       IN  /\ position' = fresh.position
           /\ cash' = fresh.cash
           /\ portfolio_value' = fresh.portfolio_value
           /\ shares' = fresh.shares
           /\ trades' = fresh.trades
           /\ total_position_value' = fresh.total_position_value
    /\ i' = 0
    /\ close' = <<>>
    /\ signals' = IF signals.some THEN Some(<<>>) ELSE None
    /\ calls' = calls + 1
    /\ current_price' = 0
    /\ signal' = 0
    /\ UNCHANGED <<files, cacheVars, botVars, sendVars>>

\* The call with the arguments of the initial state.
RunBacktestBegin ==
    /\ run_pc = "start"
    /\ RunBacktestCall(symbol, market, is_simulating, params)

\* A later call, made when the call before it has returned or raised.
RunBacktestAgain(sym, mkt, sim, prm) ==
    /\ run_pc \in {"returned", "raised"}
    /\ calls < MaxCalls
    /\ RunBacktestCall(sym, mkt, sim, prm)

\* Lines 214-285: one iteration of "for i in range(len(data))".
ProcessBar ==
    /\ run_pc = "loop"
    /\ i < nbars
    /\ \E price \in Prices(market), sig \in Signals :
       LET tpv == PositionValue(position, price)
           shares_to_buy == SharesToBuy(market, tpv, price)
           cost == Cost(shares_to_buy, price)
           buys == /\ SignalProcessed(i)
                   /\ sig = 1
                   /\ tpv < initial_capital
                   /\ BuyExecutes(shares_to_buy, price, cash)
           sells == SignalProcessed(i) /\ SellExecutes(sig, position)
           sale_value == SaleValue(position, price)
           new_position ==
               IF buys THEN PositionAfterBuy(position, shares_to_buy)
               ELSE IF sells THEN 0 ELSE position
           new_cash ==
               IF buys THEN cash - cost
               ELSE IF sells THEN cash + sale_value ELSE cash
       IN  /\ close' = Append(close, price)
           /\ signals' = IF signals.some THEN Some(Append(signals.val, sig))
                         ELSE None
           /\ current_price' = price
           /\ signal' = sig
           /\ total_position_value' = tpv
           /\ position' = new_position
           /\ cash' = new_cash
           /\ trades' =
                IF buys
                THEN Append(trades, [time |-> current_time(i), type |-> "buy",
                                     price |-> price,
                                     shares |-> shares_to_buy, value |-> cost,
                                     total_position |-> new_position])
                ELSE IF sells
                THEN Append(trades, [time |-> current_time(i), type |-> "sell",
                                     price |-> price,
                                     shares |-> position,
                                     value |-> sale_value])
                ELSE trades
           /\ portfolio_value' =
                Append(portfolio_value, current_value(new_cash, new_position, price))
           /\ shares' = Append(shares, new_position)
    /\ i' = i + 1
    /\ UNCHANGED <<botVars, sendVars>>
    /\ UNCHANGED <<files, cacheVars, run_pc, symbol, market, is_simulating, params, nbars,
                   calls, error, stats>>

\* Lines 287-344: final value, total return and the returned stats.
RunBacktestFinish ==
    /\ run_pc = "loop"
    /\ i = nbars
    /\ IF nbars = 0
       THEN \* data['close'].iloc[-1] of an empty frame
            /\ run_pc' = "raised"
            /\ error' = "IndexError"
            /\ stats' = stats
       ELSE LET final_value == FinalValue(cash, position, close)
            IN  /\ run_pc' = "returned"
                /\ error' = error
                /\ stats' = Some([initial_capital |-> initial_capital,
                                  final_value |-> final_value,
                                  total_return |-> TotalReturn(final_value),
                                  total_trades |-> Len(trades),
                                  win_rate |-> WinRate(trades),
                                  max_drawdown |->
                                      MaxDrawdown(trades, portfolio_value),
                                  sharpe_ratio |->
                                      SharpeRatio(trades, portfolio_value),
                                  params_used |-> params])
    /\ UNCHANGED <<botVars, sendVars>>
    /\ UNCHANGED <<files, cacheVars, symbol, market, is_simulating, params, nbars, i,
                   close, signals, calls, current_price, signal, total_position_value, position, cash,
                   portfolio_value, shares, trades>>

(***************************************************************************)
(* find_best_params.                                                       *)
(***************************************************************************)
Procs == {1, 2}

\* No cache file: "if output_file:" is false and open("") finds no file.
NoOutputFile == ""

WeightsA == [macd_weight |-> 40, rsi_weight |-> 30]
WeightsB == [macd_weight |-> 30, rsi_weight |-> 40]

\* param_grid: the parameter names in dict order, each with its candidate values.
ParamGrid ==
    << [name |-> "reactivity", values |-> <<8, 10>>],
       [name |-> "weights", values |-> <<WeightsA, WeightsB>>] >>

\* A grid of two candidates.
SmallGrid ==
    << [name |-> "reactivity", values |-> <<10>>],
       [name |-> "weights", values |-> <<WeightsA, WeightsB>>] >>

\* A grid with a scalar parameter that has the name of a weight field.
ClashGrid ==
    << [name |-> "reactivity", values |-> <<10>>],
       [name |-> "macd_weight", values |-> <<15>>],
       [name |-> "weights", values |-> <<WeightsA, WeightsB>>] >>

\* What one run_backtest of a candidate returns in result['stats'].
StatsSet ==
    { [total_return |-> -2, win_rate |-> 0, max_drawdown |-> 4],
      [total_return |-> 5, win_rate |-> 100, max_drawdown |-> 0],
      [total_return |-> 5, win_rate |-> 50, max_drawdown |-> 2] }

\* The same, without the tie in total_return.
SmallStatsSet == {st \in StatsSet : st.win_rate # 50}

\* itertools.product(*lists): the first list varies slowest.
RECURSIVE Product(_)
Product(lists) ==
    IF lists = <<>>
    THEN << <<>> >>
    ELSE LET head == Head(lists)
             rest == Product(Tail(lists))
         IN  [n \in 1..(Len(head) * Len(rest)) |->
                 <<head[((n - 1) \div Len(rest)) + 1]>>
                     \o rest[((n - 1) % Len(rest)) + 1]]

\* dict(zip(param_names, values))
ZipDict(names, values) ==
    [nm \in {names[j] : j \in 1..Len(names)} |->
        values[CHOOSE j \in 1..Len(names) : names[j] = nm]]

\* param_combinations
Combinations(grid) ==
    LET param_names == [j \in 1..Len(grid) |-> grid[j].name]
        param_values == [j \in 1..Len(grid) |-> grid[j].values]
        prod == Product(param_values)
    IN  [n \in 1..Len(prod) |-> ZipDict(param_names, prod[n])]

\* d.update(u): the keys of u are set in d
Overlay(d, u) ==
    [key \in (DOMAIN d) \cup (DOMAIN u) |->
        IF key \in DOMAIN u THEN u[key] ELSE d[key]]

\* A merge that unpacks the weight preset before the candidate is overlaid.
MergedParamsWeightsFirst(candidate) ==
    Overlay(Overlay(DefaultParams, candidate.weights), candidate)

\* Lines 93-98: the defaults, updated with the candidate, then with the
\* weight preset found under 'weights' after that update
MergedParams(candidate) ==
    LET default_params == Overlay(DefaultParams, candidate)
        weight_combination == default_params["weights"]
    IN  Overlay(default_params, weight_combination)

\* datetime.now().strftime("%Y-%m-%d"): the day of a clock reading
DateOf(now) == now \div TicksPerDay

\* datetime.strptime(date, "%Y-%m-%d"): 00:00 of that day
ParseDate(date) == date * TicksPerDay

\* timedelta(weeks=1)
DaysPerWeek == 7
Week == DaysPerWeek * TicksPerDay

\* A freshness test with a window of six days.
IsFreshSixDays(now, date) == now - ParseDate(date) < Week - TicksPerDay

\* datetime.now() - last_update_date < timedelta(weeks=1)
IsFresh(now, date) == now - ParseDate(date) < Week

\* Time that can pass between two readings of datetime.now(): none, one tick,
\* one tick less than a week, a week.
Elapsed == {0, 1, Week - 1, Week}

\* Time a grid search can take.
SearchElapsed == {0, 1}

\* A comparison that lets a later candidate win a tie.
IsBetterOrEqual(performance, best_performance) ==
    ~best_performance.some \/ performance >= best_performance.val

\* if performance > best_performance, with best_performance = -inf at first
IsBetter(performance, best_performance) ==
    ~best_performance.some \/ performance > best_performance.val

RECURSIVE SumSeq(_)
SumSeq(sq) == IF sq = <<>> THEN 0 ELSE Head(sq) + SumSeq(Tail(sq))

\* A maximum that is the last element.
MaxSeqLast(sq) == sq[Len(sq)]

\* max(performances)
MaxSeq(sq) == CHOOSE x \in {sq[j] : j \in 1..Len(sq)} :
                 \A j \in 1..Len(sq) : sq[j] <= x
MinSeq(sq) == CHOOSE x \in {sq[j] : j \in 1..Len(sq)} :
                 \A j \in 1..Len(sq) : x <= sq[j]

\* An entry whose summary covers the best candidate only.
MakeEntryBestOnly(best_params, best_metrics, performances, now) ==
    [best_params |-> best_params,
     metrics |-> best_metrics,
     performance_summary |->
        [max_performance |-> best_metrics.performance,
         min_performance |-> best_metrics.performance,
         avg_performance |-> [num |-> best_metrics.performance, den |-> 1]],
     date |-> DateOf(now)]

\* The entry stored under the symbol (lines 128-137).
MakeEntry(best_params, best_metrics, performances, now) ==
    [best_params |-> best_params,
     metrics |-> best_metrics,
     performance_summary |->
        [max_performance |-> MaxSeq(performances),
         min_performance |-> MinSeq(performances),
         avg_performance |-> [num |-> SumSeq(performances),
                              den |-> Len(performances)]],
     date |-> DateOf(now)]

\* The frame of a call that has not started.
IdleFrame ==
    [pc |-> "idle", symbol |-> "", output_file |-> "", grid |-> <<>>,
     started |-> 0,
     existing_data |-> EmptyDoc, k |-> 0, best_params |-> None,
     best_performance |-> None, best_metrics |-> None, performances |-> <<>>,
     sims |-> 0, ret |-> None, error |-> "none",
     prev |-> None, seen |-> {}, wrote |-> None,
     evaluated |-> <<>>, results |-> <<>>]

Finished(p) == fb[p].pc \in {"idle", "returned", "raised"}

\* A call that ran the grid search to its end.
Searched(p) == fb[p].pc = "returned" /\ fb[p].sims > 0

\* Lines 58-84: load the document, return the cached parameters if the entry
\* is fresh, else start the search.  In a sequential run (exclusive) a call
\* starts only when no other call is in progress.
FindBegin(p, sym, grid, path, now, exclusive) ==
    /\ fb[p].pc = "idle"
    /\ exclusive => /\ \A q \in Procs : Finished(q)
                    /\ \A q \in Procs : q < p => fb[q].pc # "idle"
    /\ clock' = now
    /\ LET f == IF path = NoOutputFile THEN MissingFile ELSE files[path]
           frame == [IdleFrame EXCEPT !.symbol = sym, !.output_file = path,
                                      !.grid = grid, !.started = now]
       IN  IF f.kind = "corrupt"
           THEN fb' = [fb EXCEPT ![p] =
                          [frame EXCEPT !.pc = "raised",
                                        !.error = "JSONDecodeError"]]
           ELSE LET existing_data == LoadedDoc(f)
                    \* the calls that wrote this file before this load
                    seen == {q \in Procs \ {p} :
                                /\ \E n \in 1..Len(writes) : writes[n] = q
                                /\ fb[q].output_file = path}
                    prev == IF sym \in DOMAIN existing_data
                            THEN Some(existing_data[sym]) ELSE None
                    loaded == [frame EXCEPT !.existing_data = existing_data,
                                            !.seen = seen, !.prev = prev]
                IN  IF /\ sym \in DOMAIN existing_data
                       /\ IsFresh(now, existing_data[sym].date)
                    THEN fb' = [fb EXCEPT ![p] =
                                   [loaded EXCEPT
                                       !.pc = "returned",
                                       !.ret = Some(existing_data[sym].best_params)]]
                    ELSE fb' = [fb EXCEPT ![p] = [loaded EXCEPT !.pc = "search"]]
    /\ UNCHANGED <<files, writes, simVars, botVars, sendVars>>

\* A search that catches the exception and returns the best candidate so far.
ReturnBestSoFar(frame, err) ==
    [frame EXCEPT !.pc = "returned", !.sims = @ + 1, !.error = err,
                  !.ret = frame.best_params]

\* run_backtest (line 101) raises and nothing in find_best_params catches
\* it: the call ends there with the exception.
Propagate(frame, err) ==
    [frame EXCEPT !.pc = "raised", !.sims = @ + 1, !.error = err]

\* Lines 91-119: one candidate: run_backtest, record, keep the best.
EvalCandidate(p, outcomes) ==
    /\ fb[p].pc = "search"
    /\ fb[p].k < Len(Combinations(fb[p].grid))
    /\ LET candidate == Combinations(fb[p].grid)[fb[p].k + 1]
           \* params=default_params of the run_backtest call of line 101
           default_params == MergedParams(candidate)
       IN  \/ \* run_backtest raises: nothing catches it
              /\ fb' = [fb EXCEPT ![p] =
                          Propagate([fb[p] EXCEPT
                                        !.evaluated = Append(@, default_params)],
                              IF files[DefaultCachePath].kind = "corrupt"
                              THEN "JSONDecodeError" ELSE "ValueError")]
           \/ \* run_backtest reads best_params.json before anything else
              /\ files[DefaultCachePath].kind # "corrupt"
              /\ \E result \in outcomes :
                 LET performance == result.total_return
                     better == IsBetter(performance, fb[p].best_performance)
                 IN  fb' = [fb EXCEPT
                        ![p].k = @ + 1,
                        ![p].sims = @ + 1,
                        ![p].evaluated = Append(@, default_params),
                        ![p].results = Append(@, result),
                        ![p].performances = Append(@, performance),
                        ![p].best_performance =
                            IF better THEN Some(performance) ELSE @,
                        ![p].best_params = IF better THEN Some(candidate) ELSE @,
                        ![p].best_metrics =
                            IF better
                            THEN Some([performance |-> performance,
                                       win_rate |-> result.win_rate,
                                       max_drawdown |-> result.max_drawdown])
                            ELSE @]
    /\ UNCHANGED <<files, clock, writes, simVars, botVars, sendVars>>

\* Lines 121-144: summary, rewrite of the whole document, return.
FindFinish(p, now) ==
    /\ fb[p].pc = "search"
    /\ fb[p].k = Len(Combinations(fb[p].grid))
    /\ clock' = now
    /\ LET f == fb[p]
           entry == MakeEntry(f.best_params.val, f.best_metrics.val,
                              f.performances, now)
       IN  IF f.output_file # NoOutputFile
           THEN /\ files' = [files EXCEPT ![f.output_file] =
                                JsonFile(DocPut(f.existing_data, f.symbol, entry))]
                /\ writes' = Append(writes, p)
                /\ fb' = [fb EXCEPT ![p].pc = "returned",
                                    ![p].ret = f.best_params,
                                    ![p].wrote = Some(entry)]
           ELSE /\ files' = files
                /\ writes' = writes
                /\ fb' = [fb EXCEPT ![p].pc = "returned",
                                    ![p].ret = f.best_params]
    /\ UNCHANGED <<simVars, botVars, sendVars>>

(***************************************************************************)
(* The Telegram bot (telegram_bot.py).  A string of a command is a record  *)
(* that tells a word from a decimal integer literal ("5") and from a       *)
(* literal with a point ("600.0"); a float is a number of dollars or NaN.  *)
(***************************************************************************)
Word(t) == [kind |-> "word", text |-> t, n |-> 0]
IntStr(n) == [kind |-> "int", text |-> "", n |-> n]
DecStr(n) == [kind |-> "dec", text |-> "", n |-> n]

Num(n) == [nan |-> FALSE, val |-> n]
NaN == [nan |-> TRUE, val |-> 0]

\* str.lower() and str.upper(), on the words of the model
Lower(s) ==
    IF s.kind # "word" THEN s
    ELSE Word(CASE s.text = "PORTFOLIO" -> "portfolio"
                [] s.text = "BTC/USD" -> "btc/usd"
                [] s.text = "ETH/USD" -> "eth/usd"
                [] s.text = "SPY" -> "spy"
                [] s.text = "XYZ" -> "xyz"
                [] OTHER -> s.text)

Upper(s) ==
    IF s.kind # "word" THEN s
    ELSE Word(CASE s.text = "portfolio" -> "PORTFOLIO"
                [] s.text = "individual" -> "INDIVIDUAL"
                [] s.text = "btc/usd" -> "BTC/USD"
                [] s.text = "eth/usd" -> "ETH/USD"
                [] s.text = "spy" -> "SPY"
                [] s.text = "abc" -> "ABC"
                [] s.text = "nan" -> "NAN"
                [] OTHER -> s.text)

\* int(s): None stands for ValueError
ParseInt(s) == IF s.kind = "int" THEN Some(s.n) ELSE None

\* float(s): a literal with or without a point, or "nan" in any case; None
\* stands for ValueError
ParseFloat(s) ==
    IF s.kind \in {"int", "dec"} THEN Some(Num(s.n))
    ELSE IF Lower(s).text = "nan" THEN Some(NaN)
    ELSE None

\* str(x) of a float x
StrOfFloat(x) == IF x.nan THEN Word("nan") ELSE DecStr(x.val)

\* x <= 0: every comparison with NaN is false
FloatLeqZero(x) == ~x.nan /\ x.val <= 0

\* amount * allocations[symbol], the allocation being a percentage
FloatTimesShare(x, pct) == IF x.nan THEN NaN ELSE Num((x.val * pct) \div 100)

\* self.symbols, in the order of the list
BotSymbols == <<"SPY", "BTC/USD", "ETH/USD">>
BotSymbolSet == {BotSymbols[j] : j \in 1..Len(BotSymbols)}

\* TRADING_SYMBOLS.get(s, {}).get('market')
MarketOf(s) ==
    IF s \in {"BTC/USD", "ETH/USD"} THEN "CRYPTO"
    ELSE IF s = "SPY" THEN "STOCK" ELSE "none"

\* symbol in self.symbols, for the string of an argument
IsBotSymbol(s) == s.kind = "word" /\ s.text \in BotSymbolSet

\* The allocations a portfolio backtest can leave (lines 798-801): none when
\* nothing is held at the end, else percentages of the symbols that add up
\* to 100.
Allocations ==
    { [s \in {} |-> 0],
      [s \in {"SPY"} |-> 100],
      [s \in {"BTC/USD", "ETH/USD"} |-> IF s = "BTC/USD" THEN 60 ELSE 40],
      [s \in BotSymbolSet |-> IF s = "ETH/USD" THEN 0 ELSE 50] }

\* The days of a portfolio backtest
BacktestDays == {5, 7}

\* One call of a handler or of an executor, as recorded in the log.
Invocation(op, sym, amt) == [op |-> op, symbol |-> sym, amount |-> amt]

\* A selection that takes every symbol of the allocations.
CryptoSymbolsAll(allocations) ==
    SelectSeq(BotSymbols, LAMBDA s : s \in DOMAIN allocations)

\* Lines 1095-1097: the crypto symbols with a positive allocation, in the
\* order of the dict
CryptoSymbols(allocations) ==
    SelectSeq(BotSymbols,
              LAMBDA s : /\ s \in DOMAIN allocations
                         /\ MarketOf(s) = "CRYPTO"
                         /\ allocations[s] > 0)

\* A days check that accepts every cached result.
DaysMatchAlways(cached_days, days) == TRUE

\* cached_backtest['days'] == days
DaysMatch(cached_days, days) == cached_days = days

\* open_command (lines 642-679) on the positions hld: what it replies, which
\* executor calls it makes and the positions after it.  analysis is whether
\* the strategy returned data, order_ok whether open_position returned
\* without an exception.
OpenCommandRun(args, hld, analysis, order_ok) ==
    IF Len(args) # 2
    THEN [reply |-> "usage", calls |-> <<>>, held |-> hld]
    ELSE LET sym == Upper(args[1])
             amount == ParseFloat(args[2])
         IN  IF ~amount.some
             THEN [reply |-> "amount must be a number", calls |-> <<>>,
                   held |-> hld]
             ELSE IF ~IsBotSymbol(sym)
             THEN [reply |-> "invalid symbol", calls |-> <<>>, held |-> hld]
             ELSE IF FloatLeqZero(amount.val)
             THEN [reply |-> "amount must be positive", calls |-> <<>>,
                   held |-> hld]
             ELSE IF ~analysis
             THEN [reply |-> "unable to get current price", calls |-> <<>>,
                   held |-> hld]
             ELSE [reply |-> IF order_ok THEN "" ELSE "error opening position",
                   calls |-> <<Invocation("open_position", sym.text, amount.val)>>,
                   held |-> IF order_ok THEN hld \cup {sym.text} ELSE hld]

\* close_command (lines 681-707): close_position of one symbol, or of every
\* symbol when no argument is given; close_position closes the position if
\* there is one, or raises (raises) and the handler goes on.
CloseCommandRun(args, hld, raises) ==
    LET given == args # <<>>
        sym == IF given THEN Upper(args[1]) ELSE Word("")
    IN  IF given /\ ~IsBotSymbol(sym)
        THEN [reply |-> "invalid symbol", calls |-> <<>>, held |-> hld]
        ELSE LET symbols_to_close == IF given THEN <<sym.text>> ELSE BotSymbols
                 closing == {symbols_to_close[j] : j \in 1..Len(symbols_to_close)}
                 success_count == IF raises THEN 0
                                  ELSE Cardinality(closing \cap hld)
             IN  [reply |-> IF raises THEN "error closing position"
                            ELSE IF success_count > 0 THEN "closed"
                            ELSE IF ~given THEN "no open positions" ELSE "",
                  calls |-> [j \in 1..Len(symbols_to_close) |->
                               Invocation("close_position",
                                          symbols_to_close[j], Num(0))],
                  held |-> IF raises THEN hld ELSE hld \ closing]

\* The state of a handler: which one, where it is, its arguments and the
\* local variables of invest_command.
IdleCommand ==
    [handler |-> "none", pc |-> "done", args |-> <<>>, days |-> 0,
     amount |-> Num(0), allocations |-> [s \in {} |-> 0],
     crypto_symbols |-> <<>>, k |-> 0, held0 |-> {}, analysis |-> FALSE,
     reply |-> ""]

\* A handler starts when the one before has returned: the application
\* processes its updates one at a time.
BotReady == cmd.pc = "done"

\* backtest_command, portfolio branch, lines 860-865: the result is kept on
\* the bot.
BacktestCommand(days, allocations) ==
    /\ BotReady
    /\ last_portfolio_backtest' =
          Some([days |-> days, allocations |-> allocations])
    /\ cmd' = [IdleCommand EXCEPT !.handler = "backtest", !.held0 = held,
                                  !.reply = "summary"]
    /\ invoked' = <<>>
    /\ UNCHANGED <<held, sendVars, files, cacheVars, simVars>>

\* open_command as the handler of /open
OpenCommand(args) ==
    /\ BotReady
    /\ \E analysis \in BOOLEAN, order_ok \in BOOLEAN :
          LET run == OpenCommandRun(args, held, analysis, order_ok)
          IN  /\ held' = run.held
              /\ invoked' = run.calls
              /\ cmd' = [IdleCommand EXCEPT !.handler = "open", !.args = args,
                                            !.held0 = held,
                                            !.analysis = analysis,
                                            !.reply = run.reply]
    /\ UNCHANGED <<last_portfolio_backtest, sendVars, files, cacheVars, simVars>>

\* close_command as the handler of /close
CloseCommand(args) ==
    /\ BotReady
    /\ \E raises \in BOOLEAN :
          LET run == CloseCommandRun(args, held, raises)
          IN  /\ held' = run.held
              /\ invoked' = run.calls
              /\ cmd' = [IdleCommand EXCEPT !.handler = "close", !.args = args,
                                            !.held0 = held,
                                            !.reply = run.reply]
    /\ UNCHANGED <<last_portfolio_backtest, sendVars, files, cacheVars, simVars>>

\* invest_command, lines 1070-1107: the arguments, the cached backtest, the
\* crypto symbols to reallocate.
InvestBegin(args) ==
    /\ BotReady
    /\ invoked' = <<>>
    /\ LET frame == [IdleCommand EXCEPT !.handler = "invest", !.args = args,
                                        !.held0 = held]
       IN  IF Len(args) # 3
           THEN cmd' = [frame EXCEPT !.reply = "invalid format"]
           ELSE LET backtest_type == args[1]
                    days == ParseInt(args[2])
                    amount == ParseFloat(args[3])
                IN  IF ~days.some \/ ~amount.some
                    THEN cmd' = [frame EXCEPT !.reply = "invalid input"]
                    ELSE IF /\ Lower(backtest_type) = Word("portfolio")
                            /\ last_portfolio_backtest.some
                            /\ DaysMatch(last_portfolio_backtest.val.days,
                                         days.val)
                    THEN LET allocations ==
                                 last_portfolio_backtest.val.allocations
                             crypto_symbols == CryptoSymbols(allocations)
                             parsed == [frame EXCEPT
                                           !.days = days.val,
                                           !.amount = amount.val,
                                           !.allocations = allocations,
                                           !.crypto_symbols = crypto_symbols]
                         IN  IF crypto_symbols = <<>>
                             THEN cmd' = [parsed EXCEPT
                                             !.reply = "no crypto assets"]
                             ELSE cmd' = [parsed EXCEPT
                                             !.pc = "closing",
                                             !.reply = "planned allocations"]
                    ELSE cmd' = [frame EXCEPT
                                    !.days = days.val, !.amount = amount.val,
                                    !.reply = "no matching backtest"]
    /\ UNCHANGED <<last_portfolio_backtest, held, sendVars,
                   files, cacheVars, simVars>>

\* Lines 1109-1113: close_command for the next crypto symbol, awaited.
InvestClose ==
    /\ cmd.handler = "invest"
    /\ cmd.pc = "closing"
    /\ \E raises \in BOOLEAN :
          LET sym == cmd.crypto_symbols[cmd.k + 1]
              run == CloseCommandRun(<<Word(sym)>>, held, raises)
              last == cmd.k + 1 = Len(cmd.crypto_symbols)
          IN  /\ held' = run.held
              /\ invoked' = invoked
                              \o <<Invocation("close_command", sym, Num(0))>>
                              \o run.calls
              /\ cmd' = [cmd EXCEPT !.k = IF last THEN 0 ELSE @ + 1,
                                    !.pc = IF last THEN "opening" ELSE @,
                                    !.reply = IF last THEN "opening new positions"
                                              ELSE run.reply]
    /\ UNCHANGED <<last_portfolio_backtest, sendVars, files, cacheVars, simVars>>

\* Lines 1118-1128: open_command for the next crypto symbol with its share
\* of the amount, awaited; after the last one the handler returns.
InvestOpen ==
    /\ cmd.handler = "invest"
    /\ cmd.pc = "opening"
    /\ \E analysis \in BOOLEAN, order_ok \in BOOLEAN :
          LET sym == cmd.crypto_symbols[cmd.k + 1]
              symbol_amount == FloatTimesShare(cmd.amount, cmd.allocations[sym])
              run == OpenCommandRun(<<Word(sym), StrOfFloat(symbol_amount)>>,
                                    held, analysis, order_ok)
              last == cmd.k + 1 = Len(cmd.crypto_symbols)
          IN  /\ held' = run.held
              /\ invoked' = invoked
                              \o <<Invocation("open_command", sym, symbol_amount)>>
                              \o run.calls
              /\ cmd' = [cmd EXCEPT !.k = @ + 1,
                                    !.pc = IF last THEN "done" ELSE @,
                                    !.reply = IF last THEN "reallocation completed"
                                              ELSE run.reply]
    /\ UNCHANGED <<last_portfolio_backtest, sendVars, files, cacheVars, simVars>>

\* The arguments the commands are given.
InvestArgs ==
    { <<t, d, a>> : t \in {Word("portfolio"), Word("PORTFOLIO"), Word("individual")},
                    d \in {IntStr(5), IntStr(7), Word("abc")},
                    a \in {IntStr(1000), IntStr(0), IntStr(-100), Word("nan"),
                           Word("abc")} }
        \cup { <<>>, <<Word("portfolio"), IntStr(5)>> }

OpenArgs ==
    { <<s, a>> : s \in {Word("btc/usd"), Word("ETH/USD"), Word("SPY"), Word("XYZ")},
                 a \in {IntStr(1000), DecStr(600), IntStr(0), IntStr(-100),
                        Word("nan"), Word("abc")} }
        \cup { <<>>, <<Word("SPY")>> }

CloseArgs == { <<>>, <<Word("btc/usd")>>, <<Word("SPY")>>, <<Word("XYZ")>> }

(***************************************************************************)
(* send_message (lines 119-132).  A message is a sequence of characters.   *)
(***************************************************************************)
\* Telegram's limit on the length of a message
ChunkLimit == 4096

\* A split that keeps the first chunk only.
ChunksFirstOnly(msg) ==
    IF msg = <<>> THEN <<>>
    ELSE << SubSeq(msg, 1, IF Len(msg) < ChunkLimit THEN Len(msg) ELSE ChunkLimit) >>

\* chunks = [message[i:i+4096] for i in range(0, len(message), 4096)]
Chunks(msg) ==
    [c \in 1..((Len(msg) + ChunkLimit - 1) \div ChunkLimit) |->
        SubSeq(msg, (c - 1) * ChunkLimit + 1,
               IF c * ChunkLimit < Len(msg) THEN c * ChunkLimit ELSE Len(msg))]

\* A text of a given length; its characters depend on their place.
Text(len, pattern) == [j \in 1..len |-> (j * pattern) % 7]

MessageLengths ==
    {0, 1, ChunkLimit - 1, ChunkLimit, ChunkLimit + 1, 2 * ChunkLimit,
     2 * ChunkLimit + 1, 3 * ChunkLimit}

Messages == {Text(len, pattern) : len \in MessageLengths, pattern \in 1..4}

\* The call: the chunks are computed; with none of them the loop is empty
\* and the call returns.
SendMessageBegin(msg) ==
    /\ send_pc \in {"idle", "returned"}
    /\ message' = msg
    /\ chunks' = Chunks(msg)
    /\ sent' = <<>>
    /\ send_logged' = FALSE
    /\ send_pc' = IF Chunks(msg) = <<>> THEN "returned" ELSE "sending"
    /\ UNCHANGED <<botVars, files, cacheVars, simVars>>

\* await self.bot.send_message(text=chunk) returns: the chunk is delivered.
SendChunk ==
    /\ send_pc = "sending"
    /\ sent' = Append(sent, chunks[Len(sent) + 1])
    /\ send_pc' = IF Len(sent) + 1 = Len(chunks) THEN "returned" ELSE "sending"
    /\ UNCHANGED <<message, chunks, send_logged, botVars, files, cacheVars, simVars>>

\* await self.bot.send_message raises: except Exception logs the error and
\* the call returns.
SendChunkFails ==
    /\ send_pc = "sending"
    /\ send_logged' = TRUE
    /\ send_pc' = "returned"
    /\ UNCHANGED <<message, chunks, sent, botVars, files, cacheVars, simVars>>

\* No handler has run and no message was sent.
BotIdle ==
    /\ last_portfolio_backtest = None
    /\ held = {}
    /\ cmd = IdleCommand
    /\ invoked = <<>>
    /\ message = <<>>
    /\ chunks = <<>>
    /\ sent = <<>>
    /\ send_pc = "idle"
    /\ send_logged = FALSE

(***************************************************************************)
(* Specifications.                                                         *)
(***************************************************************************)
\* A cache document as find_best_params leaves it for one symbol.
SampleEntry ==
    MakeEntry(Combinations(ParamGrid)[2],
              [performance |-> 5, win_rate |-> 100, max_drawdown |-> 0],
              <<-2, 5, 5, -2>>, 0)

SimInit ==
    /\ run_pc = "start"
    /\ symbol \in Symbols
    /\ market \in Markets
    /\ is_simulating \in BOOLEAN
    /\ params \in ParamsArgs
    /\ nbars = 0
    /\ i = 0
    /\ close = <<>>
    /\ calls = 0
    /\ current_price = 0
    /\ signal = 0
    /\ total_position_value = 0
    /\ position = 0
    /\ cash = initial_capital
    /\ portfolio_value = <<initial_capital>>
    /\ shares = <<0>>
    /\ trades = <<>>
    /\ error = "none"
    /\ stats = None

\* No find_best_params call is in progress.
CacheIdle ==
    /\ clock = 0
    /\ writes = <<>>
    /\ fb = [p \in Procs |-> IdleFrame]

\* run_backtest alone, for every cache document it can find.
Init ==
    /\ SimInit
    /\ signals = None
    /\ CacheIdle
    /\ BotIdle
    /\ \E f \in {MissingFile, CorruptFile, JsonFile(EmptyDoc),
                 JsonFile(DocPut(EmptyDoc, "SPY", SampleEntry))} :
          files = [p \in Paths |-> IF p = DefaultCachePath THEN f ELSE MissingFile]

Next ==
    \/ RunBacktestBegin
    \/ ProcessBar
    \/ RunBacktestFinish

Spec == Init /\ [][Next]_vars

\* Replays on the crypto market made one after another by a caller that
\* passes its params (is_simulating true), each recorded with its signals.
PureInit ==
    /\ SimInit
    /\ signals = Some(<<>>)
    /\ CacheIdle
    /\ BotIdle
    /\ symbol = "BTC/USD"
    /\ market = "CRYPTO"
    /\ is_simulating = TRUE
    /\ params = None
    /\ files = [p \in Paths |-> MissingFile]

PureNext ==
    \/ RunBacktestBegin
    \/ ProcessBar
    \/ RunBacktestFinish
    \/ RunBacktestAgain("BTC/USD", "CRYPTO", TRUE, None)

PureSpec == PureInit /\ [][PureNext]_vars

\* The optimizer run for one symbol, then the single run of SPY that reads
\* the cache the optimizer left.
RoundTripInit ==
    /\ SimInit
    /\ signals = None
    /\ CacheIdle
    /\ BotIdle
    /\ symbol = "SPY"
    /\ market = "STOCK"
    /\ is_simulating = FALSE
    /\ params = None
    /\ files = [p \in Paths |-> MissingFile]

RoundTripNext ==
    \/ /\ run_pc = "start"
       /\ \E sym \in Symbols, path \in Paths :
             FindBegin(1, sym, SmallGrid, path, clock, TRUE)
    \/ run_pc = "start" /\ EvalCandidate(1, SmallStatsSet)
    \/ run_pc = "start" /\ FindFinish(1, clock)
    \/ fb[1].pc \in {"returned", "raised"} /\ RunBacktestBegin
    \/ ProcessBar
    \/ RunBacktestFinish

RoundTripSpec == RoundTripInit /\ [][RoundTripNext]_vars

\* No run_backtest of the replay model is in progress.
SimIdle ==
    /\ run_pc = "idle"
    /\ symbol = "SPY"
    /\ market = "STOCK"
    /\ is_simulating = FALSE
    /\ params = None
    /\ nbars = 0
    /\ i = 0
    /\ close = <<>>
    /\ signals = None
    /\ calls = 0
    /\ current_price = 0
    /\ signal = 0
    /\ total_position_value = 0
    /\ position = 0
    /\ cash = initial_capital
    /\ portfolio_value = <<initial_capital>>
    /\ shares = <<0>>
    /\ trades = <<>>
    /\ error = "none"
    /\ stats = None

\* The documents a run can find: none, an unparseable one, one holding an
\* entry for SPY written on day 0.
CacheInit ==
    /\ SimIdle
    /\ CacheIdle
    /\ BotIdle
    /\ \E f \in {MissingFile, CorruptFile,
                 JsonFile(DocPut(EmptyDoc, "SPY", SampleEntry))} :
          files = [p \in Paths |-> IF p = DefaultCachePath THEN f ELSE MissingFile]

\* Two find_best_params calls, one after the other, while time passes.
CacheNext ==
    \/ \E p \in Procs, sym \in Symbols, path \in Paths \cup {NoOutputFile},
          d \in Elapsed :
          FindBegin(p, sym, SmallGrid, path, clock + d, TRUE)
    \/ \E p \in Procs : EvalCandidate(p, SmallStatsSet)
    \/ \E p \in Procs, d \in SearchElapsed : FindFinish(p, clock + d)

CacheSpec == CacheInit /\ [][CacheNext]_vars

\* Two optimizer runs on the same files, interleaved.
ConcNext ==
    \/ \E p \in Procs, sym \in Symbols, path \in Paths \cup {NoOutputFile},
          d \in SearchElapsed :
          FindBegin(p, sym, SmallGrid, path, clock + d, FALSE)
    \/ \E p \in Procs : EvalCandidate(p, SmallStatsSet)
    \/ \E p \in Procs, d \in SearchElapsed : FindFinish(p, clock + d)

ConcSpec == CacheInit /\ [][ConcNext]_vars

\* One grid search over the full grid, then a second call that finds its entry.
GridInit ==
    /\ SimIdle
    /\ CacheIdle
    /\ BotIdle
    /\ files = [p \in Paths |-> MissingFile]

GridNext ==
    \/ \E p \in Procs, sym \in Symbols :
          FindBegin(p, sym, ParamGrid, DefaultCachePath, clock, TRUE)
    \/ \E p \in Procs : EvalCandidate(p, StatsSet)
    \/ \E p \in Procs : FindFinish(p, clock)

GridSpec == GridInit /\ [][GridNext]_vars

\* Grid searches over a grid in which a scalar parameter and the weight
\* presets define the same key.
MergeNext ==
    \/ \E p \in Procs, sym \in Symbols, path \in Paths :
          FindBegin(p, sym, ClashGrid, path, clock, TRUE)
    \/ \E p \in Procs : EvalCandidate(p, StatsSet)
    \/ \E p \in Procs : FindFinish(p, clock)

MergeSpec == GridInit /\ [][MergeNext]_vars

\* The bot's trading commands, one update after another.
BotInit ==
    /\ SimIdle
    /\ CacheIdle
    /\ BotIdle
    /\ files = [p \in Paths |-> MissingFile]

BotNext ==
    \/ \E days \in BacktestDays, allocations \in Allocations :
          BacktestCommand(days, allocations)
    \/ \E args \in OpenArgs : OpenCommand(args)
    \/ \E args \in CloseArgs : CloseCommand(args)
    \/ \E args \in InvestArgs : InvestBegin(args)
    \/ InvestClose
    \/ InvestOpen

BotSpec == BotInit /\ [][BotNext]_vars

\* Calls of send_message, one after another.
SendNext ==
    \/ \E msg \in Messages : SendMessageBegin(msg)
    \/ SendChunk
    \/ SendChunkFails

SendSpec == BotInit /\ [][SendNext]_vars

(***************************************************************************)
(* Properties of the replay loop (checked under Spec).                     *)
(***************************************************************************)
\* The bar processed last executed a trade of the given type.
LastBarTraded(type) ==
    /\ i >= 1
    /\ trades # <<>>
    /\ trades[Len(trades)].time = i - 1
    /\ trades[Len(trades)].type = type

\* C1: cash is >= 0 in every state of the replay loop, after every bar,
\* whether or not a trade executed on it.
C1_CashNonNegative == cash >= 0

\* C1 witness: a buy signal under the cap whose quantity is positive was
\* refused because its cost exceeds the cash left after an earlier buy.
C1_Witness ==
    /\ run_pc = "loop"
    /\ i >= 2
    /\ signal = 1
    /\ total_position_value < initial_capital
    /\ SharesToBuy(market, total_position_value, current_price) > 0
    /\ SharesToBuy(market, total_position_value, current_price) * current_price > cash
    /\ trades # <<>>
    /\ trades[Len(trades)].time < i - 1
    /\ cash < initial_capital

\* C2: the position quantity is >= 0 in every state of the replay loop.
C2_PositionNonNegative ==
    /\ position >= 0
    /\ \A k \in 1..Len(shares) : shares[k] >= 0

\* C2 witness: a sell signal arrived while nothing was held, after a buy and
\* a sell had already been executed.
C2_Witness ==
    /\ run_pc = "loop"
    /\ i >= 3
    /\ signal = -1
    /\ position = 0
    /\ Len(trades) = 2
    /\ trades[2].type = "sell"
    /\ trades[2].time < i - 1

\* C3: immediately after an executed buy at bar i, position x current_price
\* of that bar is <= initial_capital, on both kinds of market.
C3_PostBuyWithinCap ==
    LastBarTraded("buy") => position * current_price <= initial_capital

(***************************************************************************)
(* Properties of the cache (checked under CacheSpec, where the calls are    *)
(* numbered in the order they are made, and under ConcSpec).                *)
(***************************************************************************)
\* The entry of a symbol in a cache file, if the file holds one.
EntryIn(fs, path, sym) ==
    IF fs[path].kind = "json" /\ sym \in DOMAIN fs[path].data
    THEN Some(fs[path].data[sym])
    ELSE None

\* C4: once a call for a symbol has run the grid search and persisted its
\* entry, a later call for the same symbol and file made less than 7 days
\* after that call runs no simulation and returns the same best_params.
C4_FreshWithinWeek ==
    \A q \in Procs, p \in Procs :
        ( /\ q < p
          /\ fb[q].wrote.some
          /\ fb[p].pc # "idle"
          /\ fb[p].symbol = fb[q].symbol
          /\ fb[p].output_file = fb[q].output_file
          /\ fb[p].started - fb[q].started < DaysPerWeek * TicksPerDay )
        => ( /\ fb[p].pc = "returned"
             /\ fb[p].sims = 0
             /\ fb[p].ret = fb[q].ret )

\* The call of p found, when it loaded the document, no entry for its symbol
\* or one whose date lies at least 7 days before the time of the load.
FoundAbsentOrStale(p) ==
    \/ ~fb[p].prev.some
    \/ fb[p].started - fb[p].prev.val.date * TicksPerDay
           >= DaysPerWeek * TicksPerDay

C6_OtherEntriesPreserved ==
    [][ \A p \in Procs :
          ( /\ fb[p].pc = "search"
            /\ fb'[p].pc = "returned"
            /\ fb[p].output_file # NoOutputFile )
          => LET path == fb[p].output_file
                 loaded == fb[p].existing_data
             IN  /\ files'[path].kind = "json"
                 /\ DOMAIN files'[path].data = DOMAIN loaded \cup {fb[p].symbol}
                 /\ \A s \in DOMAIN loaded \ {fb[p].symbol} :
                       files'[path].data[s] = loaded[s]
                 /\ files'[path].data[fb[p].symbol] = fb'[p].wrote.val
                 /\ \A other \in Paths \ {path} : files'[other] = files[other]
      ]_vars

\* C6 witness: a call wrote its entry into a document that held another
\* symbol's entry, and that entry is still there.
C6_Witness ==
    \E p \in Procs :
        /\ fb[p].wrote.some
        /\ \E s \in DOMAIN fb[p].existing_data :
              /\ s # fb[p].symbol
              /\ EntryIn(files, fb[p].output_file, s) = Some(fb[p].existing_data[s])
        /\ EntryIn(files, fb[p].output_file, fb[p].symbol) = fb[p].wrote

\* Two runs for different symbols have both written the same cache file.
BothWrote(p, q) ==
    /\ p # q
    /\ fb[p].wrote.some
    /\ fb[q].wrote.some
    /\ fb[p].output_file = fb[q].output_file
    /\ fb[p].symbol # fb[q].symbol

\* C7: when two runs for different symbols on the same cache file have both
\* finished, the file holds both new entries: neither write is lost.
C7_NoLostWrite ==
    \A p \in Procs, q \in Procs :
        BothWrote(p, q) =>
            /\ EntryIn(files, fb[p].output_file, fb[p].symbol) = fb[p].wrote
            /\ EntryIn(files, fb[q].output_file, fb[q].symbol) = fb[q].wrote

\* C7 as amended: the store is not atomic.  When both runs have finished the
\* file holds the entry of the run that wrote last, and it holds the entry
\* of the run that wrote first exactly when the last writer loaded the
\* document after that write.
C7_LastWriterWins ==
    \A p \in Procs, q \in Procs :
        ( BothWrote(p, q) /\ writes = <<q, p>> ) =>
            /\ EntryIn(files, fb[p].output_file, fb[p].symbol) = fb[p].wrote
            /\ ( EntryIn(files, fb[q].output_file, fb[q].symbol) = fb[q].wrote
                   <=> q \in fb[p].seen )

\* C7 witness: both runs loaded the document before either wrote, and the
\* entry of the run that wrote first is gone.
C7_Witness ==
    \E p \in Procs, q \in Procs :
        /\ BothWrote(p, q)
        /\ writes = <<q, p>>
        /\ fb[p].seen = {}
        /\ EntryIn(files, fb[p].output_file, fb[p].symbol) = fb[p].wrote
        /\ EntryIn(files, fb[q].output_file, fb[q].symbol) # fb[q].wrote

\* C8: a missing or an unparseable cache document is treated as an empty
\* cache: no call raises because of the document.
C8_BadCacheIsEmpty ==
    \A p \in Procs : fb[p].error # "JSONDecodeError"

\* C9: whenever the bar sequence to be replayed is empty, run_backtest raises
\* the data error (the ValueError of line 190) and returns no result.
C9_EmptyBarsDataError ==
    ( run_pc \in {"raised", "returned"} /\ error # "JSONDecodeError" /\ nbars = 0 )
        => ( run_pc = "raised" /\ error = "ValueError" /\ ~stats.some )

(***************************************************************************)
(* Properties of the grid search (checked under GridSpec).                 *)
(***************************************************************************)
\* The position of a candidate of ParamGrid in Cartesian-product order: the
\* first parameter varies slowest.
GenIndex(c) ==
    LET PosIn(sq, v) == CHOOSE j \in 1..Len(sq) : sq[j] = v
    IN  (PosIn(ParamGrid[1].values, c.reactivity) - 1) * Len(ParamGrid[2].values)
            + PosIn(ParamGrid[2].values, c.weights)

\* All candidates of ParamGrid.
Candidates ==
    { [reactivity |-> r, weights |-> w] :
        r \in {ParamGrid[1].values[j] : j \in 1..Len(ParamGrid[1].values)},
        w \in {ParamGrid[2].values[j] : j \in 1..Len(ParamGrid[2].values)} }

\* C10: a grid search returns a candidate whose total_return is the maximum
\* over all candidates and, among those at the maximum, the one generated
\* first; equal per-candidate results give equal best_params.
C10_FirstMaximumWins ==
    /\ \A p \in Procs :
          Searched(p) =>
             /\ fb[p].ret.some
             /\ fb[p].ret.val \in Candidates
             /\ LET best == fb[p].ret.val
                    perf(c) == fb[p].performances[GenIndex(c)]
                IN  /\ Len(fb[p].performances) = Cardinality(Candidates)
                    /\ \A c \in Candidates : perf(c) <= perf(best)
                    /\ \A c \in Candidates :
                          perf(c) = perf(best) => GenIndex(best) <= GenIndex(c)
    /\ \A p \in Procs, q \in Procs :
          ( Searched(p) /\ Searched(q)
            /\ fb[p].performances = fb[q].performances )
          => fb[p].ret = fb[q].ret

\* C10 witness: the maximum is reached by the second and the third candidate
\* and the second one is returned.
C10_Witness ==
    \E p \in Procs :
        /\ Searched(p)
        /\ fb[p].performances = <<-2, 5, 5, -2>>
        /\ fb[p].ret = Some([reactivity |-> 8, weights |-> WeightsB])

(***************************************************************************)
(* Failure of a candidate (checked under CacheSpec).                       *)
(***************************************************************************)
\* C11: when the evaluation of a candidate raises, find_best_params ends
\* with that exception: it evaluates no later candidate, returns no
\* best_params, writes nothing, and the cache files are as they were when
\* the call began (no step of a search but its final store changes a file).
C11_CandidateFailureAborts ==
    [][ \A p \in Procs :
          /\ fb'[p].error # "none" =>
                /\ fb'[p].pc = "raised"
                /\ ~fb'[p].ret.some
                /\ ~fb'[p].wrote.some
          /\ fb[p].pc = "raised" => fb'[p] = fb[p]
          /\ ( fb[p].pc = "search" /\ fb'[p].pc = "raised" ) =>
                /\ files' = files
                /\ writes' = writes
                /\ fb'[p].k = fb[p].k
                /\ fb'[p].best_params = fb[p].best_params
          /\ ( fb[p].pc = "search" /\ fb'[p].pc = "search" ) => files' = files
      ]_vars

\* C11 witness: the second candidate of a search raised; the call had found
\* a stale entry of its symbol, and that entry is still the one on file.
C11_Witness ==
    \E p \in Procs :
        /\ fb[p].pc = "raised"
        /\ fb[p].error = "ValueError"
        /\ fb[p].sims = 2
        /\ fb[p].k = 1
        /\ fb[p].best_params.some
        /\ ~fb[p].ret.some
        /\ fb[p].prev.some
        /\ EntryIn(files, fb[p].output_file, fb[p].symbol) = fb[p].prev

(***************************************************************************)
(* Trades of one bar (checked under Spec).  A step that processes a bar    *)
(* is a step with i' = i + 1: it processes the bar of index i, whose close *)
(* is current_price' and whose signal is signal'; the unprimed position    *)
(* and cash are those at the start of the bar.                             *)
(***************************************************************************)
\* The step appends exactly one trade, of the given type.
AppendsOneTrade(type) ==
    /\ Len(trades') = Len(trades) + 1
    /\ SubSeq(trades', 1, Len(trades)) = trades
    /\ trades'[Len(trades')].type = type
    /\ trades'[Len(trades')].time = i
    /\ trades'[Len(trades')].price = current_price'

\* The step leaves cash, position and the trade list as they were.
NoTrade ==
    /\ cash' = cash
    /\ position' = position
    /\ trades' = trades

\* C12: on a sell signal at a bar i >= 1 with position > 0 the whole position
\* is sold: position becomes 0, cash grows by exactly position x price, and
\* one sell trade of the prior position is appended; on a sell signal with
\* position = 0 cash, position and trades are unchanged.
C12_SellLiquidatesAll ==
    [][ ( i' = i + 1 /\ i >= 1 /\ signal' = -1 ) =>
          IF position > 0
          THEN /\ position' = 0
               /\ cash' = cash + position * current_price'
               /\ AppendsOneTrade("sell")
               /\ trades'[Len(trades')].shares = position
               /\ trades'[Len(trades')].value = position * current_price'
          ELSE NoTrade
      ]_vars

\* C12 witness: the last bar sold, at a profit, a position built by two buys.
C12_Witness ==
    /\ LastBarTraded("sell")
    /\ Len(trades) = 3
    /\ trades[1].type = "buy"
    /\ trades[2].type = "buy"
    /\ trades[3].shares = trades[1].shares + trades[2].shares
    /\ position = 0
    /\ cash > initial_capital

\* C13: a buy executes at bar i only if the position held at the start of
\* the bar, valued at the bar's close, is strictly below initial_capital;
\* when that value is >= initial_capital a buy signal changes nothing.  The
\* value the gate uses is that one, computed before any trade of the bar.
C13_BuyOnlyUnderCap ==
    [][ ( i' = i + 1 /\ signal' = 1 ) =>
          /\ total_position_value' = position * current_price'
          /\ trades' # trades =>
                /\ i >= 1
                /\ position * current_price' < initial_capital
          /\ position * current_price' >= initial_capital => NoTrade
      ]_vars

\* C13 witness: a buy signal arrived on a bar where the position bought
\* earlier was worth at least initial_capital, and nothing was traded.
C13_Witness ==
    /\ run_pc = "loop"
    /\ i >= 2
    /\ signal = 1
    /\ position > 0
    /\ total_position_value >= initial_capital
    /\ trades[Len(trades)].type = "buy"
    /\ trades[Len(trades)].time < i - 1

\* A buy signal on a bar where the position value is below the cap and the
\* tranche (quantized, raised to the minimum) would push it above the cap.
ClipCase(pos, price) ==
    /\ pos * price < initial_capital
    /\ pos * price + TrancheShares(market, price) * price > initial_capital

\* The headroom under the cap, as a quantity of the market.
Headroom(pos, price) == Quantize(market, initial_capital - pos * price, price)

\* C14: on a buy signal in the clip case the buy executes with the quantity
\* shrunk to the re-quantized headroom, so that the position is strictly
\* larger after the bar.
C14_ClipAlwaysExecutes ==
    [][ ( i' = i + 1 /\ i >= 1 /\ signal' = 1
          /\ ClipCase(position, current_price') ) =>
          /\ position' = position + Headroom(position, current_price')
          /\ position' > position
      ]_vars

\* C14 as amended: in the clip case the quantity is shrunk to the
\* re-quantized headroom; the buy executes with that quantity if it is
\* positive and its cost is within the cash, and otherwise nothing changes.
C14_ClipExecutesIfAffordable ==
    [][ ( i' = i + 1 /\ i >= 1 /\ signal' = 1
          /\ ClipCase(position, current_price') ) =>
          LET q == Headroom(position, current_price')
          IN  IF q > 0 /\ q * current_price' <= cash
              THEN /\ position' = position + q
                   /\ position' > position
                   /\ cash' = cash - q * current_price'
                   /\ AppendsOneTrade("buy")
                   /\ trades'[Len(trades')].shares = q
              ELSE NoTrade
      ]_vars

\* C14 witness: a buy was clipped to the headroom and executed, and on the
\* next bar a buy signal in the clip case found a headroom of less than one
\* unit and bought nothing.
C14_Witness ==
    /\ run_pc = "loop"
    /\ i >= 3
    /\ signal = 1
    /\ Len(trades) >= 2
    /\ trades[Len(trades)].type = "buy"
    /\ trades[Len(trades)].time = i - 2
    /\ trades[Len(trades)].shares
          < TrancheShares(market, trades[Len(trades)].price)
    /\ ClipCase(position, current_price)
    /\ Headroom(position, current_price) = 0

\* C15: every executed buy has a quantity of at least the minimum tradable
\* quantity of its market (1 unit, or 0.0001 on a crypto market), also when
\* the quantity was shrunk to the cap headroom.
C15_BuysAtLeastMinQty ==
    \A k \in 1..Len(trades) :
        trades[k].type = "buy" =>
            trades[k].shares >= (IF market = "CRYPTO" THEN 10000 ELSE 1)

\* C16: a buy that is neither raised to the minimum quantity nor clipped by
\* the cap has the quantity floor(0.20 x initial_capital / price) on a
\* non-crypto market (the rounded quotient on a crypto market); it executes
\* only if its cost is <= cash and the quantity is > 0, and then adds the
\* quantity to the position, takes quantity x price from the cash and
\* appends one buy trade that records the resulting position; otherwise
\* cash, position and trades are unchanged.
C16_PlainBuy ==
    [][ LET price == current_price'
            q == IF market # "CRYPTO"
                 THEN ((initial_capital * 20) \div 100) \div price
                 ELSE RoundHalfEven((initial_capital * 20) \div 100, price)
        IN  ( /\ i' = i + 1 /\ i >= 1 /\ signal' = 1
              /\ position * price < initial_capital
              /\ q >= (IF market = "CRYPTO" THEN 10000 ELSE 1)
              /\ position * price + q * price <= initial_capital ) =>
              IF q * price <= cash /\ q > 0
              THEN /\ position' = position + q
                   /\ cash' = cash - q * price
                   /\ AppendsOneTrade("buy")
                   /\ trades'[Len(trades')].shares = q
                   /\ trades'[Len(trades')].value = q * price
                   /\ trades'[Len(trades')].total_position = position'
              ELSE NoTrade
      ]_vars

\* C16 witness: on a non-crypto market the last bar bought the plain tranche
\* of floor(20000 / 450) = 44 units on top of an earlier buy.
C16_Witness ==
    /\ LastBarTraded("buy")
    /\ market # "CRYPTO"
    /\ Len(trades) = 2
    /\ trades[2].price = 450
    /\ trades[2].shares = 44
    /\ trades[2].value = 19800
    /\ trades[2].total_position = position
    /\ position = trades[1].shares + 44
    /\ cash = initial_capital - trades[1].value - 19800

\* C17: bar 0 executes no trade whatever its signal: after bar 0 cash is
\* initial_capital, position is 0 and no trade is recorded, and the time of
\* every trade is that of a processed bar of index >= 1.
C17_NoTradeAtBarZero ==
    /\ i = 1 => ( cash = initial_capital /\ position = 0 /\ trades = <<>> )
    /\ \A k \in 1..Len(trades) :
          trades[k].time >= 1 /\ trades[k].time < i

\* C17 witness: bar 0 carried a buy signal at an affordable price and
\* nothing was bought.
C17_Witness ==
    /\ run_pc = "loop"
    /\ i = 1
    /\ signal = 1
    /\ current_price = 100
    /\ close = <<100>>
    /\ position = 0
    /\ trades = <<>>
    /\ portfolio_value = <<initial_capital, initial_capital>>

\* C18: the trade list is in chronological order: each trade's time is
\* strictly later than the time of the trade before it, so that no bar has
\* two trades.
C18_TradesChronological ==
    \A k \in 1..(Len(trades) - 1) : trades[k].time < trades[k + 1].time

\* C18 witness: three consecutive bars each executed a trade: a buy, a sell
\* and a buy.
C18_Witness ==
    /\ Len(trades) = 3
    /\ trades[1].time = 1 /\ trades[1].type = "buy"
    /\ trades[2].time = 2 /\ trades[2].type = "sell"
    /\ trades[3].time = 3 /\ trades[3].type = "buy"

\* C19: every processed bar, traded or not, appends exactly one entry to the
\* value series and one to the position series: the cash after the bar's
\* trade + the position after it x the bar's price, and that position; no
\* other step touches the series.
C19_SeriesPerBar ==
    [][ IF i' = i + 1
        THEN /\ portfolio_value' =
                  Append(portfolio_value, cash' + position' * current_price')
             /\ shares' = Append(shares, position')
             /\ Len(portfolio_value') = i' + 1
             /\ Len(shares') = i' + 1
        ELSE /\ portfolio_value' = portfolio_value
             /\ shares' = shares
      ]_vars

\* C19 witness: the last bar carried no signal while a position was held;
\* its close moved, so the value series got a new value and the position
\* series the same position again.
C19_Witness ==
    /\ run_pc = "loop"
    /\ i >= 3
    /\ signal = 0
    /\ position > 0
    /\ Len(portfolio_value) = i + 1
    /\ Len(shares) = i + 1
    /\ shares[i + 1] = shares[i]
    /\ portfolio_value[i + 1] = cash + position * current_price
    /\ portfolio_value[i + 1] # portfolio_value[i]

\* C20: a run that returns has stats.final_value = cash + position x the
\* close of the last bar, stats.total_return = (final_value -
\* initial_capital) / initial_capital x 100 (as the fraction num / den with
\* den x 100 = initial_capital), and stats.total_trades = the number of
\* recorded trades.
C20_FinalStats ==
    run_pc = "returned" =>
        /\ stats.some
        /\ close # <<>>
        /\ stats.val.final_value = cash + position * close[Len(close)]
        /\ stats.val.total_return.num = stats.val.final_value - initial_capital
        /\ stats.val.total_return.den * 100 = initial_capital
        /\ stats.val.total_trades = Len(trades)

\* C20 witness: a run returned while holding a position bought in two
\* trades, with a last close above the first one and a gain.
C20_Witness ==
    /\ run_pc = "returned"
    /\ position > 0
    /\ Len(trades) = 2
    /\ stats.val.total_trades = 2
    /\ close[Len(close)] > close[1]
    /\ stats.val.final_value > initial_capital
    /\ stats.val.total_return.num > 0

(***************************************************************************)
(* Round trips and performance metrics (checked under Spec).               *)
(***************************************************************************)
\* The step sells, and the trade recorded before it is a buy at the price
\* of the sale.
SellsAfterBuyAtSamePrice ==
    /\ i' = i + 1
    /\ Len(trades') = Len(trades) + 1
    /\ trades'[Len(trades')].type = "sell"
    /\ trades # <<>>
    /\ trades[Len(trades)].type = "buy"
    /\ trades[Len(trades)].price = current_price'

\* C21: a buy followed by a sell at the same price restores cash to its
\* value before the buy (the cash before the sale + the cost of the buy) and
\* position to 0.
C21_BuySellRestoresCash ==
    [][ SellsAfterBuyAtSamePrice =>
          /\ position' = 0
          /\ cash' = cash + trades[Len(trades)].value
      ]_vars

\* C21 as amended: a buy made from a zero position and followed by a sell at
\* the same price restores cash to its value before the buy and position to
\* 0; a run whose trades are one such pair has win_rate 0; and on three
\* non-crypto bars at 100 with a buy at bar 1 and a sell at bar 2 the buy is
\* of 200 units and leaves cash 80000, final_value is 100000, total_return 0
\* and total_trades 2.
C21_FlatRoundTrip ==
    [][ /\ ( /\ SellsAfterBuyAtSamePrice
             /\ trades[Len(trades)].total_position = trades[Len(trades)].shares )
          => ( /\ position' = 0
               /\ cash' = cash + trades[Len(trades)].value
               /\ trades'[Len(trades')].value = trades[Len(trades)].value )
        /\ ( /\ run_pc' = "returned"
             /\ Len(trades') = 2
             /\ trades'[1].type = "buy"
             /\ trades'[2].type = "sell"
             /\ trades'[2].value = trades'[1].value )
          => stats'.val.win_rate.num = 0
        /\ ( /\ run_pc' = "returned"
             /\ market' # "CRYPTO"
             /\ close' = <<100, 100, 100>>
             /\ Len(trades') = 2
             /\ trades'[1].type = "buy" /\ trades'[1].time = 1
             /\ trades'[2].type = "sell" /\ trades'[2].time = 2 )
          => ( /\ trades'[1].shares = 200
               /\ shares' = <<0, 0, 200, 0>>
               /\ portfolio_value'[3] - 200 * 100 = 80000
               /\ cash' = 100000
               /\ position' = 0
               /\ stats'.val.final_value = 100000
               /\ stats'.val.total_return.num = 0
               /\ stats'.val.total_trades = 2
               /\ stats'.val.win_rate.num = 0 )
      ]_vars

\* C21 witness: the run of three non-crypto bars at 100 with signals hold,
\* buy, sell has returned.
C21_Witness ==
    /\ run_pc = "returned"
    /\ market # "CRYPTO"
    /\ close = <<100, 100, 100>>
    /\ Len(trades) = 2
    /\ trades[1].type = "buy" /\ trades[1].time = 1 /\ trades[1].value = 20000
    /\ trades[2].type = "sell" /\ trades[2].time = 2 /\ trades[2].value = 20000
    /\ cash = initial_capital
    /\ stats.val.win_rate = ZeroRate

\* The position in the trade list of the k-th trade of a type.
NthOfType(trs, type, k) ==
    CHOOSE n \in 1..Len(trs) :
        /\ trs[n].type = type
        /\ Cardinality({m \in 1..n : trs[m].type = type}) = k

\* The number of trades of a type.
CountOfType(trs, type) == Cardinality({n \in 1..Len(trs) : trs[n].type = type})

\* C22: win_rate pairs the k-th recorded buy with the k-th recorded sell for
\* k up to min(#buys, #sells) and is 100 x (pairs whose sell value is
\* strictly greater than the buy value) / (pairs); it is 0 when there is no
\* buy or no sell.
C22_WinRatePositionalPairs ==
    run_pc = "returned" =>
        LET buys == CountOfType(trades, "buy")
            sells == CountOfType(trades, "sell")
            pairs == IF buys < sells THEN buys ELSE sells
            won == {k \in 1..pairs :
                      trades[NthOfType(trades, "sell", k)].value
                        > trades[NthOfType(trades, "buy", k)].value}
            win_rate == stats.val.win_rate
        IN  /\ win_rate.den > 0
            /\ IF pairs = 0
               THEN win_rate.num = 0
               ELSE win_rate.num * pairs = 100 * Cardinality(won) * win_rate.den

\* C22 witness: two buys and a sale of both; the sale brought less than the
\* first buy cost and more than the second, and the one pair is no win.
C22_Witness ==
    /\ run_pc = "returned"
    /\ Len(trades) = 3
    /\ trades[1].type = "buy"
    /\ trades[2].type = "buy"
    /\ trades[3].type = "sell"
    /\ trades[3].value < trades[1].value
    /\ trades[3].value > trades[2].value
    /\ stats.val.win_rate = [num |-> 0, den |-> 1]

\* C23: sharpe_ratio is 0 whenever the value series yields fewer than 2
\* return observations or the excess returns have a standard deviation of 0,
\* as they have on a constant value series.
C23_SharpeZeroWhenDegenerate ==
    ( /\ run_pc = "returned"
      /\ \/ Len(portfolio_value) - 1 < 2
         \/ \A k \in 1..Len(portfolio_value) :
               portfolio_value[k] = portfolio_value[1] )
    => stats.val.sharpe_ratio = "0"

\* The drop of the series from its point j to its later point k, as a
\* fraction of the value at j, is at most num / den.
DropAtMost(series, j, k, num, den) ==
    series[k] < series[j] => FracLeq(series[j] - series[k], series[j], num, den)

\* C24: max_drawdown is 100 x the largest relative drop of the value series
\* below its running maximum, that is the largest drop from any point to a
\* later one relative to the earlier; it is >= 0; it has that value in every
\* run, also in one without trades; and the series 100000, 110000, 90000,
\* 95000 gives 100 x 2/11 (about 18.18).
C24_MaxDrawdown ==
    /\ MaxDrawdown(<<[type |-> "buy"]>>, <<100000, 110000, 90000, 95000>>)
          = [num |-> 2, den |-> 11, scale |-> 100]
    /\ run_pc = "returned" =>
          LET dd == stats.val.max_drawdown
              n == Len(portfolio_value)
          IN  /\ dd.scale = 100
              /\ dd.num >= 0
              /\ dd.den > 0
              /\ \A j \in 1..n : \A k \in j..n :
                    DropAtMost(portfolio_value, j, k, dd.num, dd.den)
              /\ \E j \in 1..n : \E k \in j..n :
                    /\ portfolio_value[k] <= portfolio_value[j]
                    /\ FracLeq(dd.num, dd.den,
                               portfolio_value[j] - portfolio_value[k],
                               portfolio_value[j])

\* C24 witness: the value rose above its first value and then fell below
\* it: the drawdown is the drop below the peak, relative to the peak, not
\* the drop below the first value.
C24_Witness ==
    /\ run_pc = "returned"
    /\ Len(portfolio_value) = 5
    /\ portfolio_value[4] > portfolio_value[1]
    /\ portfolio_value[5] < portfolio_value[1]
    /\ stats.val.max_drawdown.num > 0
    /\ stats.val.max_drawdown
          = Percentage(portfolio_value[4] - portfolio_value[5], portfolio_value[4])

(***************************************************************************)
(* Parameter source of run_backtest (checked under Spec).                  *)
(***************************************************************************)
\* The cache document as run_backtest sees it: empty if the file is missing.
CacheDoc ==
    IF files[DefaultCachePath].kind = "json"
    THEN files[DefaultCachePath].data
    ELSE EmptyDoc

\* The step is a call of run_backtest that reaches the loop.
CallReachesLoop == run_pc = "start" /\ run_pc' = "loop"

\* C25: with is_simulating false and no params supplied, the params used are
\* the cached best_params of the symbol if the cache has an entry for it and
\* the defaults otherwise; with is_simulating true they are exactly the
\* params passed by the caller, whatever the cache holds.  The params
\* resolved at the start are those reported as params_used.
C25_ParameterSource ==
    [][ /\ ( CallReachesLoop /\ is_simulating = FALSE /\ ~params.some ) =>
              params' = IF symbol \in DOMAIN CacheDoc
                        THEN Some(CacheDoc[symbol].best_params)
                        ELSE Some(DefaultParams)
        /\ ( CallReachesLoop /\ is_simulating = TRUE ) => params' = params
        /\ run_pc = "loop" => params' = params
        /\ ( run_pc = "loop" /\ run_pc' = "returned" ) =>
              stats'.val.params_used = params
      ]_vars

\* C25 witness: a run with is_simulating true and explicit params returned
\* those params although the cache holds an entry for its symbol.
C25_Witness ==
    /\ run_pc = "returned"
    /\ is_simulating = TRUE
    /\ symbol \in DOMAIN CacheDoc
    /\ stats.val.params_used = Some(ExplicitParams)
    /\ Some(CacheDoc[symbol].best_params) # stats.val.params_used

(***************************************************************************)
(* Purity of the replay (checked under PureSpec, where runs follow one     *)
(* another and each run records its signals).                              *)
(***************************************************************************)
\* The portfolio, the series and the trades after the bars closes[1..n] with
\* the signals sigs[1..n], replayed from the initial portfolio.
RECURSIVE Replay(_, _, _)
Replay(mkt, closes, sigs) ==
    IF closes = <<>>
    THEN [position |-> 0, cash |-> initial_capital, trades |-> <<>>,
          portfolio_value |-> <<initial_capital>>, shares |-> <<0>>]
    ELSE LET n == Len(closes)
             b == Replay(mkt, SubSeq(closes, 1, n - 1), SubSeq(sigs, 1, n - 1))
             price == closes[n]
             tpv == b.position * price
             q == SharesToBuy(mkt, tpv, price)
             buys == /\ n - 1 > 0
                     /\ sigs[n] = 1
                     /\ tpv < initial_capital
                     /\ q * price <= b.cash
                     /\ q > 0
             sells == n - 1 > 0 /\ sigs[n] = -1 /\ b.position > 0
             pos == IF buys THEN b.position + q ELSE IF sells THEN 0 ELSE b.position
             csh == IF buys THEN b.cash - q * price
                    ELSE IF sells THEN b.cash + b.position * price ELSE b.cash
         IN  [position |-> pos,
              cash |-> csh,
              trades |->
                 IF buys
                 THEN Append(b.trades, [time |-> n - 1, type |-> "buy",
                                        price |-> price, shares |-> q,
                                        value |-> q * price,
                                        total_position |-> pos])
                 ELSE IF sells
                 THEN Append(b.trades, [time |-> n - 1, type |-> "sell",
                                        price |-> price, shares |-> b.position,
                                        value |-> b.position * price])
                 ELSE b.trades,
              portfolio_value |-> Append(b.portfolio_value, csh + pos * price),
              shares |-> Append(b.shares, pos)]

\* C28: the replay is a function of its inputs.  In every state of every
\* run, the first or a later one, the trades, both series, cash and position
\* are those that the bars and signals replayed so far give from the initial
\* portfolio (so a run that has replayed nothing has the initial portfolio,
\* whatever the run before it left), and the stats of a run that returns are
\* those of that outcome.  Two runs with the same bars and signals therefore
\* agree in all of them.
C28_ReplayIsPure ==
    ( run_pc \in {"loop", "returned"} /\ signals.some ) =>
        LET r == Replay(market, close, signals.val)
        IN  /\ position = r.position
            /\ cash = r.cash
            /\ trades = r.trades
            /\ portfolio_value = r.portfolio_value
            /\ shares = r.shares
            /\ run_pc = "returned" =>
                  /\ stats.val.final_value
                        = r.cash + r.position * close[Len(close)]
                  /\ stats.val.total_trades = Len(r.trades)
                  /\ stats.val.win_rate = WinRate(r.trades)
                  /\ stats.val.max_drawdown
                        = MaxDrawdown(r.trades, r.portfolio_value)
                  /\ stats.val.sharpe_ratio
                        = SharpeRatio(r.trades, r.portfolio_value)

\* C28 witness: a second run, made after a first one had ended, bought, sold
\* and bought again and has returned with a position.
C28_Witness ==
    /\ calls = 2
    /\ run_pc = "returned"
    /\ signals = Some(<<0, 1, -1, 1>>)
    /\ Len(trades) = 3
    /\ position > 0
    /\ stats.val.total_trades = 3

\* C30: a call with is_simulating false and explicit params uses those
\* params as params_used, whatever the cache holds.
C30_ExplicitParamsWin ==
    [][ /\ ( CallReachesLoop /\ is_simulating = FALSE /\ params.some ) =>
              params' = params
        /\ ( run_pc = "loop" /\ run_pc' = "returned"
             /\ is_simulating = FALSE /\ calls = 1
             /\ params = Some(ExplicitParams) ) =>
              stats'.val.params_used = Some(ExplicitParams)
      ]_vars

(***************************************************************************)
(* The grid search: parameter merge, persisted entry, round trip.          *)
(***************************************************************************)
\* C26: the ParameterSet given to run_backtest for a candidate is the
\* defaults, overlaid with the candidate's fields, overlaid last with the
\* fields of the candidate's weight preset: every key of the preset has the
\* preset's value, every other key of the candidate the candidate's value,
\* every remaining key its default, and there is no other key (checked
\* under MergeSpec).
C26_MergeOrder ==
    \A p \in Procs :
        \A k \in 1..Len(fb[p].evaluated) :
            LET candidate == Combinations(fb[p].grid)[k]
                preset == candidate.weights
                given == fb[p].evaluated[k]
            IN  /\ DOMAIN given = (DOMAIN DefaultParams) \cup (DOMAIN candidate)
                                      \cup (DOMAIN preset)
                /\ \A key \in DOMAIN preset : given[key] = preset[key]
                /\ \A key \in (DOMAIN candidate) \ (DOMAIN preset) :
                      given[key] = candidate[key]
                /\ \A key \in (DOMAIN DefaultParams)
                                 \ ((DOMAIN candidate) \cup (DOMAIN preset)) :
                      given[key] = DefaultParams[key]

\* C26 witness: a candidate whose own macd_weight (15), whose preset (30)
\* and whose default (40) all differ was evaluated with the preset's value.
C26_Witness ==
    \E p \in Procs :
        \E k \in 1..Len(fb[p].evaluated) :
            LET candidate == Combinations(fb[p].grid)[k]
            IN  /\ candidate.macd_weight = 15
                /\ candidate.weights = WeightsB
                /\ DefaultParams.macd_weight = 40
                /\ fb[p].evaluated[k].macd_weight = 30
                /\ fb[p].evaluated[k].fractal_window = 100
                /\ fb[p].pc = "returned"

\* The step in which a call of find_best_params ends its grid search.
SearchCompletes(p) == fb[p].pc = "search" /\ fb'[p].pc = "returned"

\* The first candidate, in generation order, whose total_return is the
\* maximum of the series of results.
BestIndex(results) ==
    CHOOSE b \in 1..Len(results) :
        /\ \A m \in 1..Len(results) :
              results[m].total_return <= results[b].total_return
        /\ \A m \in 1..(b - 1) :
              results[m].total_return < results[b].total_return

\* C27: when a grid search completes, the entry persisted under the symbol
\* holds the best candidate as best_params, that candidate's total_return,
\* win_rate and max_drawdown as metrics, the maximum, minimum and mean of
\* total_return over all evaluated candidates as performance_summary, and
\* the date of the moment of the store; the call returns that same
\* best_params and nothing else (checked under CacheSpec).
C27_PersistedEntry ==
    [][ \A p \in Procs :
          SearchCompletes(p) =>
            LET f == fb'[p]
                results == f.results
                n == Len(results)
                b == BestIndex(results)
                best == Combinations(f.grid)[b]
                returns == {results[m].total_return : m \in 1..n}
            IN  /\ n = Len(Combinations(f.grid))
                /\ f.ret = Some(best)
                /\ f.output_file # NoOutputFile =>
                     /\ files'[f.output_file].kind = "json"
                     /\ f.symbol \in DOMAIN files'[f.output_file].data
                     /\ LET entry == files'[f.output_file].data[f.symbol]
                            summary == entry.performance_summary
                        IN  /\ DOMAIN entry = {"best_params", "metrics",
                                               "performance_summary", "date"}
                            /\ entry.best_params = best
                            /\ Some(entry.best_params) = f.ret
                            /\ entry.metrics =
                                  [performance |-> results[b].total_return,
                                   win_rate |-> results[b].win_rate,
                                   max_drawdown |-> results[b].max_drawdown]
                            /\ summary.max_performance \in returns
                            /\ \A x \in returns : x <= summary.max_performance
                            /\ summary.min_performance \in returns
                            /\ \A x \in returns : summary.min_performance <= x
                            /\ summary.avg_performance.den = n
                            /\ summary.avg_performance.num
                                  = SumSeq([m \in 1..n |-> results[m].total_return])
                            /\ entry.date = clock' \div TicksPerDay
                /\ f.output_file = NoOutputFile => files' = files
      ]_vars

\* C27 witness: a search over two candidates with returns 5 and -2 was
\* stored on the day after it began, replacing the entry of SPY.
C27_Witness ==
    \E p \in Procs :
        /\ Searched(p)
        /\ fb[p].performances = <<5, -2>>
        /\ fb[p].symbol = "SPY"
        /\ fb[p].output_file = DefaultCachePath
        /\ fb[p].wrote.some
        /\ fb[p].wrote.val.date > fb[p].started \div TicksPerDay
        /\ fb[p].prev.some
        /\ fb[p].prev.val # fb[p].wrote.val
        /\ fb[p].ret = Some([reactivity |-> 10, weights |-> WeightsA])
        /\ fb[p].wrote.val.performance_summary.min_performance = -2

\* C29: the ParameterSet that a non-simulating run_backtest hands to
\* generate_signals after reading the entry that a grid search stored for
\* its symbol is the ParameterSet under which that search evaluated the
\* entry's best candidate: the defaults overlaid with the candidate and
\* with its unpacked weight preset (checked under RoundTripSpec).
C29_RoundTripThroughCache ==
    ( /\ Searched(1)
      /\ fb[1].symbol = symbol
      /\ fb[1].output_file = DefaultCachePath
      /\ is_simulating = FALSE
      /\ run_pc \in {"loop", "returned"} ) =>
        params = Some(fb[1].evaluated[BestIndex(fb[1].results)])

(***************************************************************************)
(* The store the optimizer writes and the store a single run reads.        *)
(***************************************************************************)
\* C31: for every cache path given to find_best_params, once it has stored
\* the entry of a symbol, a later non-simulating run_backtest of that symbol
\* reads that entry: its parameters are the entry's best_params (checked
\* under RoundTripSpec).
C31_CachePathConsistent ==
    ( /\ Searched(1)
      /\ fb[1].wrote.some
      /\ fb[1].symbol = symbol
      /\ is_simulating = FALSE
      /\ run_pc \in {"loop", "returned"} ) =>
        params = Some(fb[1].wrote.val.best_params)

(***************************************************************************)
(* Value and trade-list invariants of the replay.                          *)
(***************************************************************************)
\* C32: a trade does not change the portfolio value at the bar's price: for
\* every bar, the value appended to the value series is the cash before the
\* bar plus the position before the bar times that bar's price, whether a
\* buy, a sell or nothing executed.
C32_TradeKeepsValue ==
    [][ ( run_pc = "loop" /\ i' = i + 1 ) =>
           /\ Len(portfolio_value') = Len(portfolio_value) + 1
           /\ portfolio_value'[Len(portfolio_value')]
                 = cash + position * current_price'
      ]_vars

\* C32 witness: a buy, then a sell at another price, then a bar without a
\* trade; the value moved with the price and not with the trades.
C32_Witness ==
    /\ run_pc = "loop"
    /\ i = 4
    /\ Len(trades) = 2
    /\ trades[1].type = "buy" /\ trades[1].time = 1
    /\ trades[2].type = "sell" /\ trades[2].time = 2
    /\ trades[2].price # trades[1].price
    /\ portfolio_value[3] = initial_capital
    /\ portfolio_value[4] = initial_capital
                               + trades[1].shares * (close[3] - close[2])
    /\ portfolio_value[4] # initial_capital
    /\ portfolio_value[5] = portfolio_value[4]
    /\ cash = portfolio_value[5]

\* C33: in every prefix of the trade list the sells are at most as many as
\* the buys, two sells never follow each other without a buy between them,
\* and the position is > 0 exactly when the last recorded trade is a buy.
C33_SellsFollowBuys ==
    /\ \A n \in 0..Len(trades) :
          Cardinality({k \in 1..n : trades[k].type = "sell"})
             <= Cardinality({k \in 1..n : trades[k].type = "buy"})
    /\ \A k \in 1..(Len(trades) - 1) :
          trades[k].type = "sell" => trades[k + 1].type = "buy"
    /\ position > 0 <=>
          ( trades # <<>> /\ trades[Len(trades)].type = "buy" )

\* C33 witness: a buy, a sell and, at the last bar, a buy again, whose
\* shares are the position held at the end.
C33_Witness ==
    /\ run_pc = "returned"
    /\ Len(trades) = 3
    /\ trades[1].type = "buy"
    /\ trades[2].type = "sell"
    /\ trades[3].type = "buy"
    /\ position > 0
    /\ position = trades[3].shares
    /\ shares[Len(shares) - 1] = 0

\* C34: the value series and the position series always have the same
\* length, the number of bars processed so far plus one (the seed entry
\* initial_capital / 0), and the final_value of the stats of a run that
\* returned is the last entry of the value series.
C34_SeriesAligned ==
    /\ Len(portfolio_value) = Len(shares)
    /\ Len(portfolio_value) = i + 1
    /\ portfolio_value[1] = initial_capital
    /\ shares[1] = 0
    /\ run_pc = "returned" =>
          stats.val.final_value = portfolio_value[Len(portfolio_value)]

\* C34 witness: a run of four bars returned with a position; its five-entry
\* series end in a value that is not the seed, and that is the final value.
C34_Witness ==
    /\ run_pc = "returned"
    /\ i = 4
    /\ Len(portfolio_value) = 5
    /\ Len(shares) = 5
    /\ shares[5] > 0
    /\ portfolio_value[5] # initial_capital
    /\ stats.val.final_value = portfolio_value[5]

\* What holds of one cache entry: the recorded performance of the best
\* candidate is the maximum, and the mean lies between the extremes.
EntryConsistent(entry) ==
    LET summary == entry.performance_summary
        avg == summary.avg_performance
    IN  /\ entry.metrics.performance = summary.max_performance
        /\ avg.den > 0
        /\ summary.min_performance * avg.den <= avg.num
        /\ avg.num <= summary.max_performance * avg.den

\* C35: in every entry written by find_best_params, metrics.performance is
\* performance_summary.max_performance, and min_performance <=
\* avg_performance <= max_performance (the mean being the fraction num / den,
\* den > 0); checked under CacheSpec for the entry each search wrote and for
\* every entry a cache file holds.
C35_EntryConsistent ==
    /\ \A p \in Procs : fb[p].wrote.some => EntryConsistent(fb[p].wrote.val)
    /\ \A path \in Paths :
          files[path].kind = "json" =>
             \A sym \in DOMAIN files[path].data :
                EntryConsistent(files[path].data[sym])

\* C35 witness: a search whose first candidate returned -2 and whose second
\* returned 5 wrote an entry with min < mean < max, which the file holds.
C35_Witness ==
    \E p \in Procs :
        /\ fb[p].wrote.some
        /\ fb[p].performances = <<-2, 5>>
        /\ LET entry == fb[p].wrote.val
           IN  /\ entry.metrics.performance = 5
               /\ entry.performance_summary.min_performance = -2
               /\ entry.performance_summary.avg_performance
                     = [num |-> 3, den |-> 2]
               /\ files[fb[p].output_file].kind = "json"
               /\ files[fb[p].output_file].data[fb[p].symbol] = entry

(***************************************************************************)
(* The bot's trading commands (checked under BotSpec).                     *)
(***************************************************************************)
\* The handler made a call of the given kind.
Invoked(ops) == \E n \in 1..Len(invoked) : invoked[n].op \in ops

\* The arguments of the invest_command in progress name a portfolio backtest
\* whose result is cached on the bot with the same days.
InvestMatchesBacktest ==
    /\ Len(cmd.args) = 3
    /\ Lower(cmd.args[1]) = Word("portfolio")
    /\ last_portfolio_backtest.some
    /\ ParseInt(cmd.args[2]).some
    /\ ParseInt(cmd.args[2]).val = last_portfolio_backtest.val.days

C37_NonPositiveAmountChangesNothing ==
    ( /\ cmd.handler = "invest"
      /\ Len(cmd.args) = 3
      /\ ParseFloat(cmd.args[3]).some
      /\ FloatLeqZero(ParseFloat(cmd.args[3]).val) ) =>
        /\ held = cmd.held0
        /\ ~Invoked({"open_position"})

\* The places of the log at which a call of one of the given kinds stands.
Places(ops) == {n \in 1..Len(invoked) : invoked[n].op \in ops}

\* C38: in invest_command every close of a position of the planned crypto
\* symbols is issued and has returned before the first open: no close
\* follows an open, the first open finds one close_command made for each
\* planned symbol, in their order; and only symbols that are crypto with a
\* strictly positive cached allocation are closed or opened.
C38_ClosesBeforeOpens ==
    cmd.handler = "invest" =>
        LET closes == Places({"close_command", "close_position"})
            opens == Places({"open_command", "open_position"})
            close_commands == SelectSeq(invoked,
                                  LAMBDA c : c.op = "close_command")
            open_commands == SelectSeq(invoked,
                                  LAMBDA c : c.op = "open_command")
        IN  /\ \A c \in closes, o \in opens : c < o
            /\ opens # {} =>
                  /\ Len(close_commands) = Len(cmd.crypto_symbols)
                  /\ \A j \in 1..Len(close_commands) :
                        close_commands[j].symbol = cmd.crypto_symbols[j]
            /\ \A j \in 1..Len(open_commands) :
                  open_commands[j].symbol = cmd.crypto_symbols[j]
            /\ cmd.pc = "done" /\ invoked # <<>> =>
                  Len(open_commands) = Len(cmd.crypto_symbols)
            /\ \A n \in 1..Len(invoked) :
                  /\ MarketOf(invoked[n].symbol) = "CRYPTO"
                  /\ last_portfolio_backtest.some
                  /\ invoked[n].symbol
                        \in DOMAIN last_portfolio_backtest.val.allocations
                  /\ last_portfolio_backtest.val.allocations[invoked[n].symbol] > 0

\* C38 witness: with BTC/USD 60% and ETH/USD 40% cached, /invest ran to its
\* end: the two closes stand before the two opens, and the last open is
\* that of ETH/USD with its share of the amount.
C38_Witness ==
    /\ cmd.handler = "invest"
    /\ cmd.pc = "done"
    /\ cmd.crypto_symbols = <<"BTC/USD", "ETH/USD">>
    /\ Len(invoked) = 8
    /\ invoked[3].op = "close_command" /\ invoked[3].symbol = "ETH/USD"
    /\ invoked[5].op = "open_command" /\ invoked[5].symbol = "BTC/USD"
    /\ invoked[8].op = "open_position" /\ invoked[8].amount = Num(400)

\* C39: open_command invokes the executor's open_position only when exactly
\* two arguments are given, the amount parses as a number and is > 0, the
\* symbol is one of the bot's symbols, and the strategy analysis returned
\* data; in every rejected case no order is placed.
C39_OpenOnlyWhenValid ==
    cmd.handler = "open" =>
        /\ Invoked({"open_position"}) =>
              /\ Len(cmd.args) = 2
              /\ ParseFloat(cmd.args[2]).some
              /\ ~ParseFloat(cmd.args[2]).val.nan
              /\ ParseFloat(cmd.args[2]).val.val > 0
              /\ IsBotSymbol(Upper(cmd.args[1]))
              /\ cmd.analysis
        /\ ~Invoked({"open_position"}) => held = cmd.held0

(***************************************************************************)
(* send_message (checked under SendSpec).                                  *)
(***************************************************************************)
\* The concatenation of a sequence of chunks.
RECURSIVE Flatten(_)
Flatten(sq) == IF sq = <<>> THEN <<>> ELSE Head(sq) \o Flatten(Tail(sq))

\* C40: send_message splits a message into consecutive chunks of at most
\* 4096 characters whose concatenation is the message; they are sent in
\* order (what has been sent is always the first chunks of the split, and
\* all of them when the call returns without an error); a failure while
\* sending is logged and the call returns: no exception reaches the caller.
C40_ChunksInOrder ==
    /\ \A c \in 1..Len(chunks) :
          Len(chunks[c]) >= 1 /\ Len(chunks[c]) <= ChunkLimit
    /\ Flatten(chunks) = message
    /\ Len(sent) <= Len(chunks)
    /\ \A c \in 1..Len(sent) : sent[c] = chunks[c]
    /\ send_pc \in {"idle", "sending", "returned"}
    /\ ( send_pc = "returned" /\ ~send_logged ) => Flatten(sent) = message
    /\ send_logged => ( send_pc = "returned" /\ Len(sent) < Len(chunks) )

\* C40 witness: a message of 2 x 4096 + 1 characters went out whole, in
\* three chunks, the last one of one character.
C40_Witness ==
    /\ send_pc = "returned"
    /\ ~send_logged
    /\ Len(message) = 2 * ChunkLimit + 1
    /\ Len(sent) = 3
    /\ Len(sent[1]) = ChunkLimit
    /\ Len(sent[3]) = 1
    /\ sent[3][1] = message[Len(message)]
    /\ sent[2][1] # sent[1][1]


=============================================================================
